---- MODULE Spec2Model ----
(***************************************************************************)
(* A model of the video generation skill of verso-agent                    *)
(* (src/skills/videogeneration/scripts): the footage fetcher of            *)
(* material.py (scoring, diversity selection, fallback search, download    *)
(* pass), and the narration and caption code of voice.py (tts,             *)
(* create_subtitle and its fallback).                                      *)
(*                                                                         *)
(* Durations of clips and of the narration are whole seconds.  A diversity *)
(* score is kept exactly, in hundredths, as a sum and a count.  Speech     *)
(* event times are in the 100 ns ticks the code computes                   *)
(* (total_seconds() * 10000000).  Text is a sequence of one-character      *)
(* strings.                                                                *)
(***************************************************************************)
EXTENDS Integers, Sequences, FiniteSets, TLC

(***************************************************************************)
(* Bounds of the model.                                                    *)
(***************************************************************************)
\* the number of clips whose download may fail in one download pass
MaxFailures == 1
\* the largest number of primary search terms of a job
MaxTerms == 2
\* random.shuffle is modelled by the permutations 0..MaxShuffle of ShuffleOf
MaxShuffle == 1

(***************************************************************************)
(* Small helpers.                                                          *)
(***************************************************************************)
Max(a, b) == IF a >= b THEN a ELSE b

Min(a, b) == IF a <= b THEN a ELSE b

Abs(a) == IF a >= 0 THEN a ELSE 0 - a

Range(s) == {s[i] : i \in 1..Len(s)}

RECURSIVE SumSeq(_)
SumSeq(s) == IF s = <<>> THEN 0 ELSE Head(s) + SumSeq(Tail(s))

Reverse(s) == [i \in 1..Len(s) |-> s[Len(s) + 1 - i]]

(***************************************************************************)
(* The clips the provider knows of.  url is the clip's link; two links of  *)
(* the same file differ by a multiple of 100 (their query strings).  match  *)
(* says whether one of the clip's files has exactly the requested          *)
(* resolution.                                                             *)
(***************************************************************************)
Clip(u, d, m) == [url |-> u, duration |-> d, match |-> m]

Catalogue ==
    << Clip(1, 8, TRUE),   Clip(2, 9, TRUE),   Clip(3, 10, TRUE),
       Clip(4, 11, TRUE),  Clip(5, 12, TRUE),  Clip(6, 8, TRUE),
       Clip(7, 9, TRUE),   Clip(8, 10, TRUE),  Clip(9, 11, TRUE),
       Clip(10, 12, TRUE), Clip(11, 10, TRUE), Clip(12, 20, TRUE),
       Clip(13, 45, TRUE), Clip(14, 3, TRUE),  Clip(15, 25, FALSE),
       Clip(101, 8, TRUE) >>

\* the raw answers of the provider to one search: slices of the catalogue
\* (the empty one is also the answer of a failed or malformed request)
Responses ==
    { <<>>,
      SubSeq(Catalogue, 1, 5),
      SubSeq(Catalogue, 4, 13),
      Catalogue }

(***************************************************************************)
(* filter_by_quality                                                       *)
(***************************************************************************)
\* a score without the bonus of the longer clips
Score_NoBonus(item, minimum_duration) ==
    LET d == item.duration
    IN  IF 10 <= d /\ d <= 30 THEN 10
        ELSE IF 8 <= d /\ d <= 40 THEN 5
        ELSE IF d >= minimum_duration THEN 2
        ELSE 0

Score(item, minimum_duration) ==
    LET d == item.duration
        base == IF 10 <= d /\ d <= 30 THEN 10
                ELSE IF 8 <= d /\ d <= 40 THEN 5
                ELSE IF d >= minimum_duration THEN 2
                ELSE 0
        bonus == IF d >= 15 THEN 3 ELSE 0
    IN  base + bonus

\* list.sort(key=score, reverse=True): stable, so an item goes behind every
\* item whose score is at least its own
RECURSIVE InsertByScore(_, _, _)
\* a sort where an item goes before the items of its own score
InsertByScore_BeforeEquals(sorted, item, minimum_duration) ==
    IF sorted = <<>> THEN <<item>>
    ELSE IF Score(Head(sorted), minimum_duration) > Score(item, minimum_duration)
         THEN <<Head(sorted)>> \o InsertByScore(Tail(sorted), item, minimum_duration)
         ELSE <<item>> \o sorted

InsertByScore(sorted, item, minimum_duration) ==
    IF sorted = <<>> THEN <<item>>
    ELSE IF Score(Head(sorted), minimum_duration) >= Score(item, minimum_duration)
         THEN <<Head(sorted)>> \o InsertByScore(Tail(sorted), item, minimum_duration)
         ELSE <<item>> \o sorted

RECURSIVE SortByScore(_, _)
\* a sort that is not stable: the items of one score come out reversed
SortByScore_TiesReversed(items, minimum_duration) ==
    IF items = <<>> THEN <<>>
    ELSE InsertByScore(SortByScore(Tail(items), minimum_duration),
                       Head(items), minimum_duration)

SortByScore(items, minimum_duration) ==
    IF items = <<>> THEN <<>>
    ELSE InsertByScore(SortByScore(SubSeq(items, 1, Len(items) - 1), minimum_duration),
                       items[Len(items)], minimum_duration)

\* a retention that keeps the end of the sorted list
filter_by_quality_KeepsTheLast(video_items, minimum_duration) ==
    IF video_items = <<>> THEN <<>>
    ELSE LET scored_items == SortByScore(video_items, minimum_duration)
             n == Len(scored_items)
         IN  IF n <= 10 THEN scored_items
             ELSE SubSeq(scored_items, n - Max(10, (n * 8) \div 10) + 1, n)

\* a retention that rounds the 80% up
filter_by_quality_RoundsUp(video_items, minimum_duration) ==
    IF video_items = <<>> THEN <<>>
    ELSE LET scored_items == SortByScore(video_items, minimum_duration)
             n == Len(scored_items)
         IN  IF n <= 10 THEN scored_items
             ELSE SubSeq(scored_items, 1, Max(10, (n * 8 + 9) \div 10))

filter_by_quality(video_items, minimum_duration) ==
    IF video_items = <<>> THEN <<>>
    ELSE LET scored_items == SortByScore(video_items, minimum_duration)
             n == Len(scored_items)
         IN  IF n <= 10 THEN scored_items
             ELSE SubSeq(scored_items, 1, Max(10, (n * 8) \div 10))

(***************************************************************************)
(* calculate_diversity_score.  The score of the code is a float; here it   *)
(* is the exact sum of the pairwise scores, in hundredths, with their      *)
(* count.  uniform says that every pairwise score is 0.3, the one case     *)
(* where the float average differs from the exact one (see ScoreBelow).    *)
(***************************************************************************)
\* a pairwise score that does not look at the links
PairScore_NoUrl(existing, new_video) ==
    LET duration_diff == Abs(existing.duration - new_video.duration)
    IN  (IF duration_diff > 10 THEN 40 ELSE IF duration_diff > 5 THEN 20 ELSE 0)
        + (IF existing.provider # new_video.provider THEN 30 ELSE 0)

PairScore(existing, new_video) ==
    LET duration_diff == Abs(existing.duration - new_video.duration)
    IN  (IF duration_diff > 10 THEN 40 ELSE IF duration_diff > 5 THEN 20 ELSE 0)
        + (IF existing.provider # new_video.provider THEN 30 ELSE 0)
        + (IF existing.url # new_video.url THEN 30 ELSE 0)

\* a score that is 0.0 when nothing was selected yet
calculate_diversity_score_EmptyIsZero(existing_videos, new_video) ==
    IF existing_videos = <<>> THEN [num |-> 0, den |-> 1, uniform |-> FALSE]
    ELSE [num |-> SumSeq([i \in 1..Len(existing_videos) |->
                              PairScore(existing_videos[i], new_video)]),
          den |-> Len(existing_videos),
          uniform |-> \A i \in 1..Len(existing_videos) :
                          PairScore(existing_videos[i], new_video) = 30]

calculate_diversity_score(existing_videos, new_video) ==
    IF existing_videos = <<>> THEN [num |-> 100, den |-> 1, uniform |-> FALSE]
    ELSE [num |-> SumSeq([i \in 1..Len(existing_videos) |->
                              PairScore(existing_videos[i], new_video)]),
          den |-> Len(existing_videos),
          uniform |-> \A i \in 1..Len(existing_videos) :
                          PairScore(existing_videos[i], new_video) = 30]

\* diversity_score < diversity_threshold, as IEEE-754 doubles decide it: the
\* exact comparison, but for sum([0.3] * n) / n, which is
\* 0.29999999999999993 for 10 <= n <= 28 and so below the threshold 0.3
ScoreBelow(score, threshold) ==
    \/ score.num < threshold * score.den
    \/ /\ threshold = 30
       /\ score.uniform
       /\ 10 <= score.den /\ score.den <= 28

(***************************************************************************)
(* search_videos_pexels / search_videos_pixabay: the raw answer, without   *)
(* the clips shorter than minimum_duration and those with no file of the   *)
(* requested resolution, then filter_by_quality if it is enabled.          *)
(***************************************************************************)
RECURSIVE KeepSuitable(_, _, _)
\* a search that keeps the clips shorter than minimum_duration
KeepSuitable_NoDurationTest(videos, minimum_duration, provider) ==
    IF videos = <<>> THEN <<>>
    ELSE LET v == Head(videos)
             rest == KeepSuitable(Tail(videos), minimum_duration, provider)
         IN  IF ~v.match THEN rest
             ELSE <<[provider |-> provider, url |-> v.url, duration |-> v.duration]>>
                  \o rest

KeepSuitable(videos, minimum_duration, provider) ==
    IF videos = <<>> THEN <<>>
    ELSE LET v == Head(videos)
             rest == KeepSuitable(Tail(videos), minimum_duration, provider)
         IN  IF v.duration < minimum_duration \/ ~v.match THEN rest
             ELSE <<[provider |-> provider, url |-> v.url, duration |-> v.duration]>>
                  \o rest

search_videos(response, minimum_duration, provider, quality_filter) ==
    LET video_items == KeepSuitable(response, minimum_duration, provider)
    IN  IF quality_filter /\ video_items # <<>>
        THEN filter_by_quality(video_items, minimum_duration)
        ELSE video_items

(***************************************************************************)
(* The merge loops of download_videos.  A selection is the triple the      *)
(* loops update: valid_video_items, valid_video_urls, found_duration.      *)
(***************************************************************************)
Accept(sel, item) ==
    [items |-> Append(sel.items, item),
     urls |-> Append(sel.urls, item.url),
     found |-> sel.found + item.duration]

\* a primary merge that leaves the diversity test out
RECURSIVE MergePrimary_NoDiversity(_, _, _)
MergePrimary_NoDiversity(sel, video_items, diversity_threshold) ==
    IF video_items = <<>> THEN sel
    ELSE IF Head(video_items).url \in Range(sel.urls)
         THEN MergePrimary_NoDiversity(sel, Tail(video_items),
                                       diversity_threshold)
         ELSE MergePrimary_NoDiversity(Accept(sel, Head(video_items)),
                                       Tail(video_items), diversity_threshold)

\* lines 338-351: the primary merge
RECURSIVE MergePrimary(_, _, _)
MergePrimary(sel, video_items, diversity_threshold) ==
    IF video_items = <<>> THEN sel
    ELSE LET item == Head(video_items)
             rest == Tail(video_items)
         IN  IF item.url \in Range(sel.urls)
             THEN MergePrimary(sel, rest, diversity_threshold)
             ELSE IF /\ diversity_threshold > 0
                     /\ ScoreBelow(calculate_diversity_score(sel.items, item),
                                   diversity_threshold)
                  THEN MergePrimary(sel, rest, diversity_threshold)
                  ELSE MergePrimary(Accept(sel, item), rest, diversity_threshold)

\* a fallback merge that does not look at valid_video_urls
RECURSIVE MergeFallback_NoUrlCheck(_, _, _)
MergeFallback_NoUrlCheck(sel, fallback_items, required_raw_duration) ==
    IF fallback_items = <<>> THEN sel
    ELSE LET next == Accept(sel, Head(fallback_items))
         IN  IF next.found >= required_raw_duration * 2
             THEN next
             ELSE MergeFallback_NoUrlCheck(next, Tail(fallback_items),
                                           required_raw_duration)

\* a fallback merge that goes through all the items
RECURSIVE MergeFallback_NoStop(_, _, _)
MergeFallback_NoStop(sel, fallback_items, required_raw_duration) ==
    IF fallback_items = <<>> THEN sel
    ELSE IF Head(fallback_items).url \in Range(sel.urls)
         THEN MergeFallback_NoStop(sel, Tail(fallback_items), required_raw_duration)
         ELSE MergeFallback_NoStop(Accept(sel, Head(fallback_items)),
                                   Tail(fallback_items), required_raw_duration)

\* lines 365-371: the fallback merge, which stops once found_duration
\* reaches twice required_raw_duration
RECURSIVE MergeFallback(_, _, _)
MergeFallback(sel, fallback_items, required_raw_duration) ==
    IF fallback_items = <<>> THEN sel
    ELSE LET item == Head(fallback_items)
             rest == Tail(fallback_items)
         IN  IF item.url \in Range(sel.urls)
             THEN MergeFallback(sel, rest, required_raw_duration)
             ELSE LET next == Accept(sel, item)
                  IN  IF next.found >= required_raw_duration * 2
                      THEN next
                      ELSE MergeFallback(next, rest, required_raw_duration)

(***************************************************************************)
(* random.shuffle: the permutations the model draws from.                  *)
(***************************************************************************)
ShuffleOf(s, k) ==
    IF k = 0 \/ Len(s) <= 1 THEN s
    ELSE IF k = 1 THEN Reverse(s)
    ELSE SubSeq(s, k, Len(s)) \o SubSeq(s, 1, k - 1)

(***************************************************************************)
(* save_video.  A file of the directory is "none" (absent or of size 0,    *)
(* which the code does not tell apart), "valid", or "bad" (not empty, but  *)
(* with no duration or no frame rate).  net is what the request and the    *)
(* decoder do with this link.                                              *)
(***************************************************************************)
UrlWithoutQuery(video_url) == video_url % 100

NetOutcomes == {"ok", "raise", "empty", "corrupt", "zero"}

Paths == {UrlWithoutQuery(Catalogue[i].url) : i \in 1..Len(Catalogue)}

\* the result: the path returned (0 for ""), whether an exception left the
\* function, and the directory afterwards
save_video(video_url, files, net) ==
    LET video_path == UrlWithoutQuery(video_url)
    IN  IF files[video_path] \in {"valid", "bad"}
        THEN [path |-> video_path, raised |-> FALSE, files |-> files]
        ELSE CASE net = "raise" ->
                    [path |-> 0, raised |-> TRUE,
                     files |-> [files EXCEPT ![video_path] = "none"]]
               [] net = "empty" ->
                    [path |-> 0, raised |-> FALSE,
                     files |-> [files EXCEPT ![video_path] = "none"]]
               [] net = "corrupt" ->
                    [path |-> 0, raised |-> FALSE,
                     files |-> [files EXCEPT ![video_path] = "none"]]
               [] net = "zero" ->
                    [path |-> 0, raised |-> FALSE,
                     files |-> [files EXCEPT ![video_path] = "bad"]]
               [] OTHER ->
                    [path |-> video_path, raised |-> FALSE,
                     files |-> [files EXCEPT ![video_path] = "valid"]]

(***************************************************************************)
(* The stop test of the download pass, line 409.                           *)
(***************************************************************************)
min_unique_sources == 10

\* a stop test with the redundancy factor forgotten
Sufficient_NoRedundancy(total, audio, paths) ==
    total >= audio /\ Len(paths) >= min_unique_sources

\* a stop test that is content with one of the two conditions
Sufficient_Either(total, audio, paths) ==
    total >= audio * 2 \/ Len(paths) >= min_unique_sources

Sufficient(total, audio, paths) ==
    total >= audio * 2 /\ Len(paths) >= min_unique_sources

(***************************************************************************)
(* Text.  A text is a sequence of characters; the characters of the model  *)
(* are letters (word characters, \w), the space (\s), the full stop, the   *)
(* square brackets, and the XML entity "&amp;" of the ampersand, which is  *)
(* one character of a speech event until unescape has replaced it.         *)
(***************************************************************************)
WordChars == {"A", "B", "C", "a", "b", "c", "d"}

IsWordChar(c) == c \in WordChars

IsSpace(c) == c = " "

lower(c) == CASE c = "A" -> "a" [] c = "B" -> "b" [] c = "C" -> "c" [] OTHER -> c

RECURSIVE Flatten(_)
Flatten(texts) == IF texts = <<>> THEN <<>> ELSE Head(texts) \o Flatten(Tail(texts))

RECURSIVE lstrip(_)
lstrip(t) == IF t # <<>> /\ IsSpace(Head(t)) THEN lstrip(Tail(t)) ELSE t

strip(t) == Reverse(lstrip(Reverse(lstrip(t))))

\* a in b, for strings
IsSubstring(a, b) ==
    \E i \in 0..(Len(b) - Len(a)) : SubSeq(b, i + 1, i + Len(a)) = a

\* xml.sax.saxutils.unescape
unescape(t) == [i \in 1..Len(t) |-> IF t[i] = "&amp;" THEN "&" ELSE t[i]]

\* re.sub(r"[^\w\s]", "", t)
StripPunctuation(t) == SelectSeq(t, LAMBDA c : IsWordChar(c) \/ IsSpace(c))

\* re.sub(r"\W+", "", t)
StripNonWord(t) == SelectSeq(t, IsWordChar)

_format_text(t) ==
    strip([i \in 1..Len(t) |-> IF t[i] \in {"[", "]", "(", ")", "{", "}"}
                               THEN " " ELSE t[i]])

(***************************************************************************)
(* utils.split_string_by_punctuations is not among the sources; after the  *)
(* specification it splits the script on sentence-ending punctuation.  The *)
(* pieces are stripped and the empty ones left out.                        *)
(***************************************************************************)
SentenceEnd == {".", "!", "?"}

RECURSIVE SplitFrom(_, _)
SplitFrom(t, txt) ==
    IF t = <<>> THEN <<strip(txt)>>
    ELSE IF Head(t) \in SentenceEnd
         THEN <<strip(txt)>> \o SplitFrom(Tail(t), <<>>)
         ELSE SplitFrom(Tail(t), Append(txt, Head(t)))

split_string_by_punctuations(t) ==
    SelectSeq(SplitFrom(t, <<>>), LAMBDA piece : piece # <<>>)

(***************************************************************************)
(* _fuzzy_match_text.  The similarity is a float between 0 and 1; here it  *)
(* is the exact fraction num / den.                                        *)
(***************************************************************************)
\* string.punctuation and the Chinese marks go, then the whitespace; all the
\* characters of the model that are no letters are among them
clean_text(t) ==
    LET kept == SelectSeq(t, LAMBDA c : IsWordChar(c))
    IN  [i \in 1..Len(kept) |-> lower(kept[i])]

_fuzzy_match_text(text1, text2) ==
    LET clean1 == clean_text(text1)
        clean2 == clean_text(text2)
        set1 == Range(clean1)
        set2 == Range(clean2)
    IN  IF clean1 = <<>> \/ clean2 = <<>> THEN [num |-> 0, den |-> 1]
        ELSE IF clean1 = clean2 THEN [num |-> 1, den |-> 1]
        ELSE IF IsSubstring(clean1, clean2) \/ IsSubstring(clean2, clean1)
             THEN [num |-> Min(Len(clean1), Len(clean2)),
                   den |-> Max(Len(clean1), Len(clean2))]
        ELSE [num |-> Cardinality(set1 \cap set2),
              den |-> Cardinality(set1 \cup set2)]

\* similarity >= 0.8 (a correctly rounded quotient is at least the double 0.8
\* exactly when the fraction is at least 4/5)
AtLeastThreshold(similarity) == similarity.num * 5 >= similarity.den * 4

(***************************************************************************)
(* create_subtitle.match_line: the text of the cue, or the empty text when *)
(* the buffer does not match the current script line.                      *)
(***************************************************************************)
match_line_ExactOnly(script_lines, _sub_line, _sub_index) ==
    IF Len(script_lines) <= _sub_index THEN <<>>
    ELSE IF _sub_line = script_lines[_sub_index + 1]
         THEN strip(script_lines[_sub_index + 1])
         ELSE <<>>

match_line(script_lines, _sub_line, _sub_index) ==
    IF Len(script_lines) <= _sub_index THEN <<>>
    ELSE LET _line == script_lines[_sub_index + 1]
         IN  IF _sub_line = _line THEN strip(_line)
             ELSE IF StripPunctuation(_sub_line) = StripPunctuation(_line)
                  THEN strip(StripPunctuation(_line))
             ELSE IF StripNonWord(_sub_line) = StripNonWord(_line)
                  THEN strip(_line)
             ELSE IF AtLeastThreshold(_fuzzy_match_text(_sub_line, _line))
                  THEN strip(_line)
             ELSE <<>>

(***************************************************************************)
(* mktimestamp and formatter.  A time is a number of 100 ns ticks;         *)
(* timedelta rounds it to whole microseconds (halves to the even one) and  *)
(* the timestamp shows the whole milliseconds.  The timestamp is kept as   *)
(* its number of milliseconds, which "HH:MM:SS,mmm" writes out.            *)
(***************************************************************************)
RoundToMicroseconds(ticks) ==
    LET q == ticks \div 10
        r == ticks % 10
    IN  IF r < 5 THEN q
        ELSE IF r > 5 THEN q + 1
        ELSE IF q % 2 = 0 THEN q ELSE q + 1

mktimestamp(ticks) == RoundToMicroseconds(ticks) \div 1000

formatter_EndAtStart(idx, start_time, end_time, sub_text) ==
    [idx |-> idx, start_t |-> mktimestamp(start_time),
     end_t |-> mktimestamp(start_time), text |-> sub_text]

formatter(idx, start_time, end_time, sub_text) ==
    [idx |-> idx, start_t |-> mktimestamp(start_time),
     end_t |-> mktimestamp(end_time), text |-> sub_text]

(***************************************************************************)
(* _create_fallback_subtitles.  A cue of sub_maker.cues is a record of its *)
(* index, its start and end in ticks and its content.  acc holds the       *)
(* locals of the loop; start_time is << >> for None.                       *)
(***************************************************************************)
max_duration_per_line == 3

TicksPerSecond == 10000000

\* lines 264, 265 and 273: the offsets are doubles, total_seconds() * 10000000,
\* and so is their difference over 10000000. Among the offsets of Paces the
\* double falls short of the exact quotient at one pair only, where
\* (162087230.0 - 132087230.00000001) / 10000000 is 2.9999999999999987.
RoundedBelow == {<<132087230, 162087230>>}

\* line 277, left operand: current_duration >= max_duration_per_line
DurationReached(start_time, end_time_micro) ==
    /\ end_time_micro - start_time >= max_duration_per_line * TicksPerSecond
    /\ <<start_time, end_time_micro>> \notin RoundedBelow

LineCloses_DurationOnly(cue, cues, start_time) ==
    DurationReached(start_time, cue.end)

\* line 277
LineCloses(cue, cues, start_time) ==
    \/ DurationReached(start_time, cue.end)
    \/ cue = cues[Len(cues)]

RECURSIVE FallbackLoop(_, _, _)
FallbackLoop(cues, k, acc) ==
    IF k > Len(cues) THEN acc.sub_items
    ELSE LET cue == cues[k]
             start_time == IF acc.start_time = <<>> THEN cue.start
                           ELSE acc.start_time[1]
             current_text == acc.current_text \o unescape(cue.content)
             closes == LineCloses(cue, cues, start_time)
         IN  IF closes /\ strip(current_text) # <<>>
             THEN FallbackLoop(cues, k + 1,
                      [sub_items |-> Append(acc.sub_items,
                                        formatter(acc.sub_index, start_time, cue.end,
                                                  strip(current_text))),
                       current_text |-> <<>>,
                       start_time |-> <<>>,
                       sub_index |-> acc.sub_index + 1])
             ELSE FallbackLoop(cues, k + 1,
                      [acc EXCEPT !.current_text = current_text,
                                  !.start_time = <<start_time>>])

_create_fallback_subtitles(cues) ==
    IF cues = <<>> THEN <<>>
    ELSE FallbackLoop(cues, 1, [sub_items |-> <<>>, current_text |-> <<>>,
                                start_time |-> <<>>, sub_index |-> 1])

(***************************************************************************)
(* The narrations of the model: a script is made of one to MaxSentences    *)
(* sentences, each closed by a full stop; the speech events are the words  *)
(* the synthesis speaks, cut and timed in one of a few ways.               *)
(***************************************************************************)
MaxSentences == 3

Sentence(t, w) == [text |-> t, words |-> w]

Sentences ==
    { Sentence(<<"A">>, << <<"A">> >>),
      Sentence(<<"B">>, << <<"B">> >>),
      Sentence(<<"C">>, << <<"C">> >>),
      Sentence(<<"a", "a", "a", "a", " ", "b">>, << <<"a", "a", "a", "a">>, <<"b">> >>),
      Sentence(<<"c", " ", "d">>, << <<"c">>, <<"d">> >>),
      Sentence(<<"[", "a", "]", " ", "b", "c">>, << <<"a">>, <<"b", "c">> >>) }

\* a narration does not say a sentence twice
Narrations ==
    {narration \in UNION {[1..n -> Sentences] : n \in 1..MaxSentences} :
        \A i, j \in DOMAIN narration : narration[i] = narration[j] => i = j}

\* the script: the sentences, a full stop behind each, a space between them
RECURSIVE ScriptOf(_)
ScriptOf(narration) ==
    IF narration = <<>> THEN <<>>
    ELSE Head(narration).text \o <<".">>
         \o (IF Len(narration) > 1 THEN <<" ">> ELSE <<>>)
         \o ScriptOf(Tail(narration))

\* the narration a script is the script of
RECURSIVE NarrationFrom(_, _)
NarrationFrom(text, said) ==
    IF text = <<>> THEN <<>>
    ELSE IF Head(text) = "."
         THEN <<CHOOSE sentence \in Sentences : sentence.text = strip(said)>>
              \o NarrationFrom(Tail(text), <<>>)
         ELSE NarrationFrom(Tail(text), Append(said, Head(text)))

RECURSIVE JoinWords(_)
JoinWords(words) ==
    IF Len(words) = 1 THEN words[1]
    ELSE words[1] \o <<" ">> \o JoinWords(Tail(words))

Cuts == {"sentence", "word", "separate", "shifted", "drift"}

\* the contents of the events of one sentence, the k-th of n
ContentsOf(sentence, cut, k, n) ==
    LET w == sentence.words
        m == Len(w)
    IN  CASE cut = "sentence" -> << JoinWords(w) \o <<".">> >>
          [] cut = "word" ->
                [i \in 1..m |-> IF i = m THEN w[i] \o <<".">> ELSE w[i]]
          [] cut = "separate" -> w \o << <<".">> >>
          [] cut = "shifted" ->
                (IF k = 1 THEN [i \in 1..m |-> IF i = m THEN w[i] \o <<".">> ELSE w[i]]
                 ELSE << <<".">> >> \o w)
                \o (IF k = n THEN << <<".">> >> ELSE <<>>)
          [] OTHER ->
                [i \in 1..m |-> IF i = m /\ k = n THEN <<"d", "d">> \o w[i] \o <<"&amp;">>
                                ELSE <<"d", "d">> \o w[i]]

ContentsOfAll(narration, cut) ==
    Flatten([k \in 1..Len(narration) |->
                 ContentsOf(narration[k], cut, k, Len(narration))])

\* the length of the i-th event and the silence before it, in ticks
Paces == {"fast", "slow", "mixed", "late"}

LengthOf(pace, i) ==
    IF pace = "late" THEN 15000000
    ELSE IF pace = "fast" \/ (pace = "mixed" /\ i % 2 = 0) THEN 5000000
    ELSE 20000000

SilenceOf(pace, i) ==
    IF pace = "late" THEN (IF i = 1 THEN 132087230 ELSE 0)
    ELSE IF pace = "fast" \/ (pace = "mixed" /\ i % 2 = 1) THEN 0
    ELSE 1000070

RECURSIVE StartOf(_, _)
StartOf(pace, i) ==
    IF i = 1 THEN SilenceOf(pace, 1)
    ELSE StartOf(pace, i - 1) + LengthOf(pace, i - 1) + SilenceOf(pace, i)

\* SubMaker.feed: the cues of the events, numbered from 1
CuesOf(contents, pace) ==
    [i \in 1..Len(contents) |->
        [index |-> i, start |-> StartOf(pace, i),
         end |-> StartOf(pace, i) + LengthOf(pace, i), content |-> contents[i]]]

(***************************************************************************)
(* State.                                                                  *)
(***************************************************************************)
VARIABLES
    params,             \* the arguments of download_videos
    pc,                 \* the position in download_videos
    term_idx,           \* the number of search terms already queried
    valid_video_items,  \* the SelectionSet
    valid_video_urls,   \* its links, in the order of acceptance
    origin,             \* for each link, the search that brought it in
    found_duration,     \* the raw found duration
    video_paths,        \* the paths of the downloaded clips
    total_duration,     \* the downloaded duration
    dl_idx,             \* the number of members already attempted
    dl_log,             \* for each attempted member, whether it was saved
    stopped,            \* whether the pass left its loop by the break
    files,              \* the directory the clips are saved to
    searches,           \* the searches issued so far, in order
    video_script,       \* the narration script
    tts_return,         \* what tts has returned: "running", "SubMaker" or "None"
    tts_log,            \* the outcome of each attempt of tts
    voice_file,         \* the audio file
    sub_maker,          \* the cues of the SubMaker tts returns
    spc,                \* the position in create_subtitle
    cue_idx,            \* the number of cues the loop has consumed
    start_time,         \* the locals of create_subtitle
    sub_line,
    sub_index,
    sub_items,
    fallback_ran,       \* whether _create_fallback_subtitles was called
    subtitle_file,      \* the items written to the subtitle file
    quality_response,   \* the videos a provider answers a search with
    quality_minimum,    \* the minimum_duration of the search
    quality_input,      \* the list filter_by_quality is given
    quality_output,     \* the list filter_by_quality returns
    quality_calls,      \* how often filter_by_quality has been applied
    jpc,                \* the position in generate_video_from_params and main
    job_params,         \* the VideoParams of the job
    stages,             \* the steps the job has announced, in order
    result,             \* the dict generate_video_from_params returns
    video_files,        \* the clips the job renders
    task_files,         \* the videos this job wrote in the task directory
    stale_files,        \* the videos an earlier job left in the task directory
    report,             \* what main reports
    published,          \* the final videos copied to the output directory
    div_existing,       \* the existing_videos calculate_diversity_score is given
    div_new,            \* its new_video
    div_score,          \* what it returned
    material_directory, \* the material_directory of the configuration
    cache_disk,         \* the clip files of every directory
    workers,            \* the jobs that download at the same time
    file_users,         \* for each clip file, the jobs that read or wrote it
    provider_results,   \* what the provider answers each search of a job with
    runs,               \* two runs of download_videos, up to the download loop
    tpc,                \* the position in the generation of the search terms
    video_subject_text, \* the topic of the job
    video_terms,        \* params.video_terms
    agent_reply,        \* what call_verso_agent returns to generate_terms
    terms_result,       \* what generate_terms returned
    save_dir,           \* the files of the directory save_video is called on
    save_calls          \* the calls of save_video so far, in order

fetchVars == <<params, pc, term_idx, valid_video_items, valid_video_urls, origin,
               found_duration, video_paths, total_duration, dl_idx, dl_log,
               stopped, files, searches>>

voiceVars == <<video_script, tts_return, tts_log, voice_file, sub_maker, spc,
               cue_idx, start_time, sub_line, sub_index, sub_items, fallback_ran,
               subtitle_file>>

scoreVars == <<quality_response, quality_minimum, quality_input, quality_output,
               quality_calls>>

jobVars == <<jpc, job_params, stages, result, video_files, task_files,
             stale_files, report, published>>

diversityVars == <<div_existing, div_new, div_score>>

cacheVars == <<material_directory, cache_disk, workers, file_users>>

runVars == <<provider_results, runs>>

termVars == <<tpc, video_subject_text, video_terms, agent_reply, terms_result>>

saveVars == <<save_dir, save_calls>>

vars == <<fetchVars, voiceVars, scoreVars, jobVars, diversityVars, cacheVars,
         runVars,
         termVars,
         saveVars>>

\* no search terms are being generated
TermsIdle ==
    /\ tpc = "idle"
    /\ video_subject_text = <<>>
    /\ video_terms = <<>>
    /\ agent_reply = <<>>
    /\ terms_result = <<>>

\* save_video is not being called
SaveIdle ==
    /\ save_dir = <<>>
    /\ save_calls = <<>>

\* no two runs are being compared
RunsIdle ==
    /\ provider_results = <<>>
    /\ runs = <<>>

\* calculate_diversity_score is not being called
DiversityIdle ==
    /\ div_existing = <<>>
    /\ div_new = <<>>
    /\ div_score = <<>>

\* no two jobs are downloading
CacheIdle ==
    /\ material_directory = ""
    /\ cache_disk = <<>>
    /\ workers = <<>>
    /\ file_users = <<>>

\* no search is being scored
ScoreIdle ==
    /\ quality_response = <<>>
    /\ quality_minimum = 0
    /\ quality_input = <<>>
    /\ quality_output = <<>>
    /\ quality_calls = 0

\* no job is running
JobIdle ==
    /\ jpc = "idle"
    /\ job_params = [subtitle_enabled |-> TRUE, video_materials |-> <<>>]
    /\ stages = <<>>
    /\ result = [audio_file |-> FALSE, subtitle_path |-> FALSE, videos |-> <<>>]
    /\ video_files = <<>>
    /\ task_files = {}
    /\ stale_files = {}
    /\ report = "none"
    /\ published = <<>>

\* no narration is in the making
VoiceIdle ==
    /\ video_script = <<>>
    /\ tts_return = "idle"
    /\ tts_log = <<>>
    /\ voice_file = "absent"
    /\ sub_maker = <<>>
    /\ spc = "idle"
    /\ cue_idx = 0
    /\ start_time = -1
    /\ sub_line = <<>>
    /\ sub_index = 0
    /\ sub_items = <<>>
    /\ fallback_ran = FALSE
    /\ subtitle_file = <<>>

(***************************************************************************)
(* The jobs the model runs download_videos for.                            *)
(***************************************************************************)
\* cached is the path of a clip that an earlier job left in the directory
\* (0 for none)
Job(a, c, q, t, s, m, f) ==
    [audio_duration |-> a, max_clip_duration |-> c, quality_filter |-> q,
     diversity_threshold |-> t, video_subject |-> s, video_contact_mode |-> m,
     source |-> "pexels", cached |-> f]

JobSet ==
    { Job(30, 5, TRUE, 30, TRUE, "random", 0),
      Job(30, 5, TRUE, 30, FALSE, "sequential", 0),
      Job(60, 8, FALSE, 30, TRUE, "sequential", 5),
      Job(10, 8, TRUE, 100, TRUE, "sequential", 0),
      Job(10, 5, FALSE, 0, FALSE, "random", 0) }

FilesOf(job) == [p \in Paths |-> IF p = job.cached THEN "valid" ELSE "none"]

InitFetch ==
    /\ SaveIdle
    /\ TermsIdle
    /\ RunsIdle
    /\ \E j \in JobSet, n \in 0..MaxTerms : params = [search_terms |-> n] @@ j
    /\ pc = "search"
    /\ term_idx = 0
    /\ valid_video_items = <<>>
    /\ valid_video_urls = <<>>
    /\ origin = <<>>
    /\ found_duration = 0
    /\ video_paths = <<>>
    /\ total_duration = 0
    /\ dl_idx = 0
    /\ dl_log = <<>>
    /\ stopped = FALSE
    /\ files = FilesOf(params)
    /\ searches = <<>>
    /\ DiversityIdle
    /\ CacheIdle
    /\ VoiceIdle
    /\ ScoreIdle
    /\ JobIdle

\* a call of search_videos: the loop it belongs to and, when nothing had been
\* accepted before it, the link of the first item it returned (0 when it
\* returned none or when the selection already had members)
Search(kind, items) ==
    [kind |-> kind,
     first |-> IF items = <<>> \/ valid_video_items # <<>> THEN 0
               ELSE items[1].url]

Selection == [items |-> valid_video_items, urls |-> valid_video_urls,
              found |-> found_duration]

\* lines 329-351: one search term
PrimarySearch ==
    /\ pc = "search"
    /\ term_idx < params.search_terms
    /\ \E response \in Responses :
         LET video_items == search_videos(response, params.max_clip_duration,
                                          params.source, params.quality_filter)
             sel == MergePrimary(Selection, video_items, params.diversity_threshold)
         IN  /\ valid_video_items' = sel.items
             /\ valid_video_urls' = sel.urls
             /\ found_duration' = sel.found
             /\ origin' = origin \o [i \in 1..(Len(sel.urls) - Len(valid_video_urls))
                                         |-> "primary"]
             /\ searches' = Append(searches, Search("primary", video_items))
    /\ term_idx' = term_idx + 1
    /\ UNCHANGED <<saveVars, termVars, runVars, voiceVars, scoreVars, jobVars, diversityVars, cacheVars, params, pc, video_paths, total_duration, dl_idx, dl_log,
                   stopped, files>>

required_raw_duration == params.audio_duration * 3

\* a fallback search that does not look at the raw found duration
FallbackSearch_WheneverConfigured ==
    /\ pc = "search"
    /\ term_idx = params.search_terms
    /\ params.video_subject
    /\ \E response \in Responses :
         LET fallback_items == search_videos(response, params.max_clip_duration,
                                             params.source, params.quality_filter)
             sel == MergeFallback(Selection, fallback_items, required_raw_duration)
         IN  /\ valid_video_items' = sel.items
             /\ valid_video_urls' = sel.urls
             /\ found_duration' = sel.found
             /\ origin' = origin \o [i \in 1..(Len(sel.urls) - Len(valid_video_urls))
                                         |-> "fallback"]
             /\ searches' = Append(searches, Search("fallback", fallback_items))
    /\ pc' = "shuffle"
    /\ UNCHANGED <<saveVars, termVars, runVars, voiceVars, scoreVars, jobVars, diversityVars, cacheVars, params,
                   term_idx, video_paths, total_duration, dl_idx, dl_log, stopped,
                   files>>

\* lines 356-371: the fallback search
FallbackSearch ==
    /\ pc = "search"
    /\ term_idx = params.search_terms
    /\ params.video_subject /\ found_duration < required_raw_duration
    /\ \E response \in Responses :
         LET fallback_items == search_videos(response, params.max_clip_duration,
                                             params.source, params.quality_filter)
             sel == MergeFallback(Selection, fallback_items, required_raw_duration)
         IN  /\ valid_video_items' = sel.items
             /\ valid_video_urls' = sel.urls
             /\ found_duration' = sel.found
             /\ origin' = origin \o [i \in 1..(Len(sel.urls) - Len(valid_video_urls))
                                         |-> "fallback"]
             /\ searches' = Append(searches, Search("fallback", fallback_items))
    /\ pc' = "shuffle"
    /\ UNCHANGED <<saveVars, termVars, runVars, voiceVars, scoreVars, jobVars, diversityVars, cacheVars, params, term_idx, video_paths, total_duration, dl_idx, dl_log,
                   stopped, files>>

\* line 357, the condition false
SkipFallback ==
    /\ pc = "search"
    /\ term_idx = params.search_terms
    /\ ~(params.video_subject /\ found_duration < required_raw_duration)
    /\ pc' = "shuffle"
    /\ UNCHANGED <<saveVars, termVars, runVars, voiceVars, scoreVars, jobVars, diversityVars, cacheVars, searches, params, term_idx, valid_video_items, valid_video_urls, origin,
                   found_duration, video_paths, total_duration, dl_idx,
                   dl_log, stopped, files>>

\* lines 384-388: the shuffle, and the entry of the download loop
Shuffle ==
    /\ pc = "shuffle"
    /\ IF params.video_contact_mode = "random"
       THEN \E k \in 0..MaxShuffle : valid_video_items' = ShuffleOf(valid_video_items, k)
       ELSE valid_video_items' = valid_video_items
    /\ pc' = IF valid_video_items = <<>> THEN "done" ELSE "download"
    /\ UNCHANGED <<saveVars, termVars, runVars, voiceVars, scoreVars, jobVars, diversityVars, cacheVars, searches, params, term_idx, valid_video_urls, origin, found_duration, video_paths, total_duration, dl_idx, dl_log, stopped,
                   files>>

Failures == Cardinality({i \in 1..Len(dl_log) : ~dl_log[i]})

\* a download loop that takes a member whose download failed out of the
\* selection
Download_DropsFailed ==
    /\ pc = "download"
    /\ dl_idx < Len(valid_video_items)
    /\ LET item == valid_video_items[dl_idx + 1]
       IN  \E net \in NetOutcomes :
             LET r == save_video(item.url, files, net)
                 saved == ~r.raised /\ r.path # 0
                 paths == IF saved THEN Append(video_paths, r.path) ELSE video_paths
                 total == IF saved THEN total_duration + item.duration
                          ELSE total_duration
                 break == saved /\ Sufficient(total, params.audio_duration, paths)
             IN  /\ saved \/ Failures < MaxFailures
                 /\ files' = r.files
                 /\ video_paths' = paths
                 /\ total_duration' = total
                 /\ dl_log' = Append(dl_log, saved)
                 /\ stopped' = break
                 /\ valid_video_items' =
                        IF saved THEN valid_video_items
                        ELSE SubSeq(valid_video_items, 1, dl_idx)
                             \o SubSeq(valid_video_items, dl_idx + 2,
                                       Len(valid_video_items))
                 /\ dl_idx' = IF saved THEN dl_idx + 1 ELSE dl_idx
                 /\ pc' = IF break \/ dl_idx' = Len(valid_video_items')
                          THEN "done" ELSE "download"
    /\ UNCHANGED <<saveVars, termVars, runVars, voiceVars, scoreVars, jobVars, diversityVars, cacheVars,
                   searches, params, term_idx, valid_video_urls, origin,
                   found_duration>>

\* a download loop that tries a member again when its download failed
Download_TriesAgain ==
    /\ pc = "download"
    /\ dl_idx < Len(valid_video_items)
    /\ LET item == valid_video_items[dl_idx + 1]
       IN  \E net \in NetOutcomes :
             LET r == save_video(item.url, files, net)
                 saved == ~r.raised /\ r.path # 0
                 paths == IF saved THEN Append(video_paths, r.path) ELSE video_paths
                 total == IF saved THEN total_duration + item.duration
                          ELSE total_duration
                 break == saved /\ Sufficient(total, params.audio_duration, paths)
             IN  /\ saved \/ Failures < MaxFailures
                 /\ files' = r.files
                 /\ video_paths' = paths
                 /\ total_duration' = total
                 /\ dl_log' = Append(dl_log, saved)
                 /\ stopped' = break
                 /\ dl_idx' = IF saved THEN dl_idx + 1 ELSE dl_idx
                 /\ pc' = IF break \/ dl_idx' = Len(valid_video_items)
                          THEN "done" ELSE "download"
    /\ UNCHANGED <<saveVars, termVars, runVars, voiceVars, scoreVars, jobVars, diversityVars, cacheVars, searches,
                   params, term_idx, valid_video_items, valid_video_urls, origin,
                   found_duration>>

\* a download loop that a failed download ends
Download_AbortsOnFailure ==
    /\ pc = "download"
    /\ dl_idx < Len(valid_video_items)
    /\ LET item == valid_video_items[dl_idx + 1]
       IN  \E net \in NetOutcomes :
             LET r == save_video(item.url, files, net)
                 saved == ~r.raised /\ r.path # 0
                 paths == IF saved THEN Append(video_paths, r.path) ELSE video_paths
                 total == IF saved THEN total_duration + item.duration
                          ELSE total_duration
                 break == saved /\ Sufficient(total, params.audio_duration, paths)
             IN  /\ saved \/ Failures < MaxFailures
                 /\ files' = r.files
                 /\ video_paths' = paths
                 /\ total_duration' = total
                 /\ dl_log' = Append(dl_log, saved)
                 /\ stopped' = break
                 /\ pc' = IF break \/ ~saved \/ dl_idx + 1 = Len(valid_video_items)
                          THEN "done" ELSE "download"
    /\ dl_idx' = dl_idx + 1
    /\ UNCHANGED <<saveVars, termVars, runVars, voiceVars, scoreVars, jobVars, diversityVars, cacheVars, searches, params, term_idx, valid_video_items, valid_video_urls, origin,
                   found_duration>>

\* a download loop that counts the usable duration of a clip
Download_CountsUsable ==
    /\ pc = "download"
    /\ dl_idx < Len(valid_video_items)
    /\ LET item == valid_video_items[dl_idx + 1]
       IN  \E net \in NetOutcomes :
             LET r == save_video(item.url, files, net)
                 saved == ~r.raised /\ r.path # 0
                 paths == IF saved THEN Append(video_paths, r.path) ELSE video_paths
                 total == IF saved
                          THEN total_duration
                               + Min(item.duration, params.max_clip_duration)
                          ELSE total_duration
                 break == saved /\ Sufficient(total, params.audio_duration, paths)
             IN  /\ saved \/ Failures < MaxFailures
                 /\ files' = r.files
                 /\ video_paths' = paths
                 /\ total_duration' = total
                 /\ dl_log' = Append(dl_log, saved)
                 /\ stopped' = break
                 /\ pc' = IF break \/ dl_idx + 1 = Len(valid_video_items)
                          THEN "done" ELSE "download"
    /\ dl_idx' = dl_idx + 1
    /\ UNCHANGED <<saveVars, termVars, runVars, voiceVars, scoreVars, jobVars, diversityVars, cacheVars, searches, params, term_idx, valid_video_items, valid_video_urls, origin,
                   found_duration>>

\* lines 388-415: one iteration of the download loop
Download ==
    /\ pc = "download"
    /\ dl_idx < Len(valid_video_items)
    /\ LET item == valid_video_items[dl_idx + 1]
       IN  \E net \in NetOutcomes :
             LET r == save_video(item.url, files, net)
                 saved == ~r.raised /\ r.path # 0
                 paths == IF saved THEN Append(video_paths, r.path) ELSE video_paths
                 total == IF saved THEN total_duration + item.duration
                          ELSE total_duration
                 break == saved /\ Sufficient(total, params.audio_duration, paths)
             IN  /\ saved \/ Failures < MaxFailures
                 /\ files' = r.files
                 /\ video_paths' = paths
                 /\ total_duration' = total
                 /\ dl_log' = Append(dl_log, saved)
                 /\ stopped' = break
                 /\ pc' = IF break \/ dl_idx + 1 = Len(valid_video_items)
                          THEN "done" ELSE "download"
    /\ dl_idx' = dl_idx + 1
    /\ UNCHANGED <<saveVars, termVars, runVars, voiceVars, scoreVars, jobVars, diversityVars, cacheVars, searches, params, term_idx, valid_video_items, valid_video_urls, origin,
                   found_duration>>

NextFetch ==
    \/ PrimarySearch
    \/ FallbackSearch
    \/ SkipFallback
    \/ Shuffle
    \/ Download

SpecFetch == InitFetch /\ [][NextFetch]_vars

\* download_videos is straight-line code and loops over finite lists, and
\* every request has a timeout: a step that can be taken is taken
\* The pass is followed for the jobs of one search term at most, whose
\* SelectionSets (with the fallback search) already have from 0 to all the
\* clips of the catalogue.
InitFetchFair == InitFetch /\ params.search_terms <= 1

SpecFetchFair == InitFetchFair /\ [][NextFetch]_vars /\ WF_vars(NextFetch)

(***************************************************************************)
(* download_videos as generate_video_from_params calls it for a job with   *)
(* a remote provider, next to calls that name a subject.                   *)
(***************************************************************************)
\* generate.py lines 222-232: the keywords of the call
PassedKeywords ==
    {"task_id", "search_terms", "source", "video_aspect", "video_contact_mode",
     "audio_duration", "max_clip_duration", "quality_filter",
     "diversity_threshold"}

\* material.py line 319: video_subject is "" unless the call names it; the
\* argument counts as a subject when it is not empty (line 357)
SubjectPassed(topic) ==
    IF "video_subject" \in PassedKeywords THEN topic # "" ELSE FALSE

\* the arguments of the call for a job of this topic; main sets the concat
\* mode to random (line 402) and min-clip-duration to 8 unless told (336)
OrchestratorCall(topic, audio_duration, quality_filter) ==
    [caller |-> "generate_video_from_params", topic |-> topic]
        @@ Job(audio_duration, 8, quality_filter, 30, SubjectPassed(topic),
               "random", 0)

OrchestratorCalls ==
    { OrchestratorCall(topic, a, q) :
          topic \in {"", "ocean"}, a \in {10, 30}, q \in BOOLEAN }

\* calls of download_videos with a subject
DirectCalls ==
    { [caller |-> "direct", topic |-> "ocean"] @@ j :
          j \in {k \in JobSet : k.video_subject} }

InitCall ==
    /\ \E j \in OrchestratorCalls \cup DirectCalls, n \in 0..1 :
         params = [search_terms |-> n] @@ j
    /\ pc = "search"
    /\ term_idx = 0
    /\ valid_video_items = <<>>
    /\ valid_video_urls = <<>>
    /\ origin = <<>>
    /\ found_duration = 0
    /\ video_paths = <<>>
    /\ total_duration = 0
    /\ dl_idx = 0
    /\ dl_log = <<>>
    /\ stopped = FALSE
    /\ files = FilesOf(params)
    /\ searches = <<>>
    /\ SaveIdle
    /\ TermsIdle
    /\ RunsIdle
    /\ DiversityIdle
    /\ CacheIdle
    /\ VoiceIdle
    /\ ScoreIdle
    /\ JobIdle

SpecCall == InitCall /\ [][NextFetch]_vars

(***************************************************************************)
(* The narration: tts, then create_subtitle.                               *)
(***************************************************************************)
\* no clip is being fetched
FetchIdle ==
    /\ params = [search_terms |-> 0]
    /\ pc = "idle"
    /\ term_idx = 0
    /\ valid_video_items = <<>>
    /\ valid_video_urls = <<>>
    /\ origin = <<>>
    /\ found_duration = 0
    /\ video_paths = <<>>
    /\ total_duration = 0
    /\ dl_idx = 0
    /\ dl_log = <<>>
    /\ stopped = FALSE
    /\ files = [p \in Paths |-> "none"]
    /\ searches = <<>>

(***************************************************************************)
(* One search: search_videos_pexels with its call of filter_by_quality,    *)
(* and filter_by_quality applied once more to what it returned.            *)
(***************************************************************************)
MaxVideos == 18

\* the durations of the videos of a provider; 3 s is below every minimum
DurationPool == <<3, 6, 8, 10, 12, 15, 30, 31, 40, 41, 60>>

\* the minimum durations of the searches
MinimumDurations == {5, 9, 12}

\* a response of n videos, their durations taken round the pool; some have
\* no file of the resolution asked for
ResponseOf(n, first, stride) ==
    [i \in 1..n |->
        Clip(i, DurationPool[((first + i * stride) % Len(DurationPool)) + 1],
             (i + first) % 6 # 0)]

InitScore ==
    /\ SaveIdle
    /\ TermsIdle
    /\ RunsIdle
    /\ FetchIdle
    /\ DiversityIdle
    /\ CacheIdle
    /\ VoiceIdle
    /\ JobIdle
    /\ \E n \in 0..MaxVideos, first \in 0..(Len(DurationPool) - 1), stride \in {1, 3, 7} :
         quality_response = ResponseOf(n, first, stride)
    /\ quality_minimum \in MinimumDurations
    /\ quality_input = <<>>
    /\ quality_output = <<>>
    /\ quality_calls = 0

\* lines 164-188: the videos of the response are gone through and scored
SearchVideos ==
    /\ quality_calls = 0
    /\ quality_minimum > 0
    /\ LET video_items == KeepSuitable(quality_response, quality_minimum, "pexels")
       IN  /\ quality_input' = video_items
           /\ quality_output' = IF video_items # <<>>
                                THEN filter_by_quality(video_items, quality_minimum)
                                ELSE video_items
    /\ quality_calls' = 1
    /\ UNCHANGED <<saveVars, termVars, runVars, fetchVars, diversityVars, cacheVars, voiceVars, jobVars, quality_response, quality_minimum>>

\* lines 17-64: filter_by_quality, given its own output
Rescore ==
    /\ quality_calls = 1
    /\ quality_input' = quality_output
    /\ quality_output' = filter_by_quality(quality_output, quality_minimum)
    /\ quality_calls' = 2
    /\ UNCHANGED <<saveVars, termVars, runVars, fetchVars, diversityVars, cacheVars, voiceVars, jobVars, quality_response, quality_minimum>>

NextScore ==
    \/ SearchVideos
    \/ Rescore

SpecScore == InitScore /\ [][NextScore]_vars

(***************************************************************************)
(* calculate_diversity_score on its own: a call with a list of already     *)
(* selected videos and a candidate.                                        *)
(***************************************************************************)
MaxExisting == 2

\* MaterialInfo: provider, url, duration
Materials ==
    [provider : {"pexels", "pixabay"}, url : {1, 2}, duration : {5, 10, 15, 26}]

RECURSIVE ListsOf(_, _)
ListsOf(S, n) ==
    IF n = 0 THEN {<<>>}
    ELSE LET shorter == ListsOf(S, n - 1)
         IN  shorter \cup {Append(l, x) : l \in {t \in shorter : Len(t) = n - 1}, x \in S}

InitDiversity ==
    /\ SaveIdle
    /\ TermsIdle
    /\ RunsIdle
    /\ FetchIdle
    /\ VoiceIdle
    /\ ScoreIdle
    /\ JobIdle
    /\ CacheIdle
    /\ div_existing \in ListsOf(Materials, MaxExisting)
    /\ div_new \in Materials
    /\ div_score = <<>>

\* lines 67-109: the call
CalculateDiversity ==
    /\ div_new # <<>>
    /\ div_score = <<>>
    /\ div_score' = <<calculate_diversity_score(div_existing, div_new)>>
    /\ UNCHANGED <<saveVars, termVars, runVars, fetchVars, voiceVars, scoreVars, jobVars, cacheVars, div_existing,
                   div_new>>

NextDiversity == CalculateDiversity

SpecDiversity == InitDiversity /\ [][NextDiversity]_vars

(***************************************************************************)
(* Two jobs in their download passes at the same time, each a process of   *)
(* its own with the same configuration.  save_video is taken step by step: *)
(* the test for an existing file, open(video_path, "wb"), the request, the *)
(* write, the close, and the decoding of the file.  A file is "none"       *)
(* (absent), "empty" (size 0), "partial" (some of its bytes written),      *)
(* "valid" or "bad" (complete, but with no duration or no frame rate).     *)
(***************************************************************************)
JobIds == {1, 2}

\* the links of the SelectionSet of a job
JobSelections == {<<1>>, <<2>>, <<1, 2>>, <<2, 1>>}

\* lines 378-382: the task directory of the job, or one directory for all
\* jobs (utils.storage_dir("cache_videos") when none is configured)
DirectoryOf(job) == IF material_directory = "task" THEN job ELSE 0

ClipFiles == {0, 1, 2} \X {1, 2}

\* line 269
VideoPathOf(job, video_url) == <<DirectoryOf(job), UrlWithoutQuery(video_url)>>

\* os.path.exists(video_path) and os.path.getsize(video_path) > 0
ExistsNotEmpty(file) == cache_disk[file] \in {"partial", "valid", "bad"}

InitShare ==
    /\ SaveIdle
    /\ TermsIdle
    /\ RunsIdle
    /\ FetchIdle
    /\ VoiceIdle
    /\ ScoreIdle
    /\ JobIdle
    /\ DiversityIdle
    /\ material_directory \in {"task", ""}
    /\ cache_disk = [f \in ClipFiles |-> "none"]
    /\ workers \in [JobIds -> [urls : JobSelections, idx : {0}, at : {"test"},
                               paths : {<<>>}]]
    /\ file_users = [f \in ClipFiles |-> {}]

CurrentFile(job) == VideoPathOf(job, workers[job].urls[workers[job].idx + 1])

\* save_video is over for the current item: with a path, or without
Leave(job, worker, saved) ==
    [worker EXCEPT !.idx = @ + 1,
                   !.at = IF worker.idx + 1 = Len(worker.urls) THEN "done" ELSE "test",
                   !.paths = IF saved THEN Append(@, CurrentFile(job)) ELSE @]

Uses(job, file) == [file_users EXCEPT ![file] = @ \cup {job}]

\* lines 271-274: the file is there already
TestExisting(job) ==
    /\ workers[job].at = "test"
    /\ workers' = [workers EXCEPT ![job] =
                       IF ExistsNotEmpty(CurrentFile(job))
                       THEN Leave(job, workers[job], TRUE)
                       ELSE [workers[job] EXCEPT !.at = "open"]]
    /\ file_users' = IF ExistsNotEmpty(CurrentFile(job))
                     THEN Uses(job, CurrentFile(job)) ELSE file_users
    /\ UNCHANGED <<saveVars, termVars, runVars, fetchVars, voiceVars, scoreVars, jobVars, diversityVars,
                   material_directory, cache_disk>>

\* line 281: open(video_path, "wb") makes the file, or empties it
OpenFile(job) ==
    /\ workers[job].at = "open"
    /\ cache_disk' = [cache_disk EXCEPT ![CurrentFile(job)] = "empty"]
    /\ workers' = [workers EXCEPT ![job].at = "request"]
    /\ file_users' = Uses(job, CurrentFile(job))
    /\ UNCHANGED <<saveVars, termVars, runVars, fetchVars, voiceVars, scoreVars, jobVars, diversityVars,
                   material_directory>>

\* lines 283-290: requests.get; an exception leaves save_video and is
\* caught in the loop of download_videos (414-415)
Request(job) ==
    /\ workers[job].at = "request"
    /\ \E answered \in BOOLEAN :
         workers' = [workers EXCEPT ![job] =
                        IF answered THEN [workers[job] EXCEPT !.at = "write"]
                        ELSE Leave(job, workers[job], FALSE)]
    /\ UNCHANGED <<saveVars, termVars, runVars, fetchVars, voiceVars, scoreVars, jobVars, diversityVars,
                   material_directory, cache_disk, file_users>>

\* line 282: f.write, the first bytes reach the file
WriteFile(job) ==
    /\ workers[job].at = "write"
    /\ cache_disk' = [cache_disk EXCEPT ![CurrentFile(job)] = "partial"]
    /\ workers' = [workers EXCEPT ![job].at = "close"]
    /\ UNCHANGED <<saveVars, termVars, runVars, fetchVars, voiceVars, scoreVars, jobVars, diversityVars,
                   material_directory, file_users>>

\* the end of the with block: the file is complete
CloseFile(job) ==
    /\ workers[job].at = "close"
    /\ \E content \in {"valid", "bad"} :
         cache_disk' = [cache_disk EXCEPT ![CurrentFile(job)] = content]
    /\ workers' = [workers EXCEPT ![job].at = "decode"]
    /\ UNCHANGED <<saveVars, termVars, runVars, fetchVars, voiceVars, scoreVars, jobVars, diversityVars,
                   material_directory, file_users>>

\* lines 292-306: VideoFileClip on what the file holds by now; a file that
\* is being written again may decode or not, and one that does not decode
\* is removed
DecodeFile(job) ==
    /\ workers[job].at = "decode"
    /\ LET file == CurrentFile(job)
       IN  CASE cache_disk[file] = "valid" ->
                    /\ workers' = [workers EXCEPT ![job] = Leave(job, workers[job], TRUE)]
                    /\ UNCHANGED cache_disk
             [] cache_disk[file] = "partial" ->
                    \/ /\ workers' = [workers EXCEPT ![job] =
                                          Leave(job, workers[job], TRUE)]
                       /\ UNCHANGED cache_disk
                    \/ /\ workers' = [workers EXCEPT ![job] =
                                          Leave(job, workers[job], FALSE)]
                       /\ cache_disk' = [cache_disk EXCEPT ![file] = "none"]
             [] OTHER ->
                    /\ workers' = [workers EXCEPT ![job] = Leave(job, workers[job], FALSE)]
                    /\ UNCHANGED cache_disk
    /\ UNCHANGED <<saveVars, termVars, runVars, fetchVars, voiceVars, scoreVars, jobVars, diversityVars,
                   material_directory, file_users>>

NextShare ==
    \E job \in JobIds :
        \/ TestExisting(job)
        \/ OpenFile(job)
        \/ Request(job)
        \/ WriteFile(job)
        \/ CloseFile(job)
        \/ DecodeFile(job)

SpecShare == InitShare /\ [][NextShare]_vars

(***************************************************************************)
(* Two runs of download_videos with the same arguments, to which the       *)
(* provider gives the same answers, each followed from its entry to its    *)
(* download loop.                                                          *)
(***************************************************************************)
RunIds == {1, 2}

\* lines 321-323
NoSelection == [items |-> <<>>, urls |-> <<>>, found |-> 0]

\* provider_results[k] answers the k-th search term, and the last one the
\* search for the subject
InitRuns ==
    /\ SaveIdle
    /\ TermsIdle
    /\ \E j \in JobSet, n \in 0..MaxTerms : params = [search_terms |-> n] @@ j
    /\ pc = "idle"
    /\ term_idx = 0
    /\ valid_video_items = <<>>
    /\ valid_video_urls = <<>>
    /\ origin = <<>>
    /\ found_duration = 0
    /\ video_paths = <<>>
    /\ total_duration = 0
    /\ dl_idx = 0
    /\ dl_log = <<>>
    /\ stopped = FALSE
    /\ files = [p \in Paths |-> "none"]
    /\ searches = <<>>
    /\ provider_results \in [1..(params.search_terms + 1) -> Responses]
    /\ runs = [r \in RunIds |->
                  [pc |-> "search", term_idx |-> 0, sel |-> NoSelection]]
    /\ DiversityIdle
    /\ CacheIdle
    /\ VoiceIdle
    /\ ScoreIdle
    /\ JobIdle

\* the list search_videos returns for the k-th search of a run
ScorerOutput(k) ==
    search_videos(provider_results[k], params.max_clip_duration, params.source,
                  params.quality_filter)

\* a primary merge that takes the candidates of a term in any order
RunPrimarySearch_AnyOrder(r) ==
    /\ runs[r].pc = "search"
    /\ runs[r].term_idx < params.search_terms
    /\ \E k \in 0..MaxShuffle :
         runs' = [runs EXCEPT
                    ![r].sel = MergePrimary(runs[r].sel,
                                   ShuffleOf(ScorerOutput(runs[r].term_idx + 1), k),
                                   params.diversity_threshold),
                    ![r].term_idx = runs[r].term_idx + 1]
    /\ UNCHANGED <<saveVars, termVars, fetchVars, voiceVars, scoreVars, jobVars, diversityVars,
                   cacheVars, provider_results>>

\* lines 329-351: one search term
RunPrimarySearch(r) ==
    /\ runs[r].pc = "search"
    /\ runs[r].term_idx < params.search_terms
    /\ runs' = [runs EXCEPT
                  ![r].sel = MergePrimary(runs[r].sel,
                                         ScorerOutput(runs[r].term_idx + 1),
                                         params.diversity_threshold),
                  ![r].term_idx = runs[r].term_idx + 1]
    /\ UNCHANGED <<saveVars, termVars, fetchVars, voiceVars, scoreVars, jobVars, diversityVars,
                   cacheVars, provider_results>>

\* line 357
RunNeedsFallback(sel) ==
    params.video_subject /\ sel.found < required_raw_duration

\* lines 356-371: the fallback search, or none
RunFallbackSearch(r) ==
    /\ runs[r].pc = "search"
    /\ runs[r].term_idx = params.search_terms
    /\ runs' = [runs EXCEPT
                  ![r].sel = IF RunNeedsFallback(runs[r].sel)
                             THEN MergeFallback(runs[r].sel,
                                      ScorerOutput(params.search_terms + 1),
                                      required_raw_duration)
                             ELSE runs[r].sel,
                  ![r].pc = "shuffle"]
    /\ UNCHANGED <<saveVars, termVars, fetchVars, voiceVars, scoreVars, jobVars, diversityVars,
                   cacheVars, provider_results>>

\* lines 384-385: the shuffle; valid_video_urls and found_duration are not
\* read after it
RunShuffle(r) ==
    /\ runs[r].pc = "shuffle"
    /\ IF params.video_contact_mode = "random"
       THEN \E k \in 0..MaxShuffle :
              runs' = [runs EXCEPT
                         ![r].sel.items = ShuffleOf(runs[r].sel.items, k),
                         ![r].pc = "download"]
       ELSE runs' = [runs EXCEPT ![r].pc = "download"]
    /\ UNCHANGED <<saveVars, termVars, fetchVars, voiceVars, scoreVars, jobVars, diversityVars,
                   cacheVars, provider_results>>

NextRuns ==
    \E r \in RunIds :
        \/ RunPrimarySearch(r)
        \/ RunFallbackSearch(r)
        \/ RunShuffle(r)

SpecRuns == InitRuns /\ [][NextRuns]_vars

(***************************************************************************)
(* The search terms of a job: step 2 of generate_video_from_params and     *)
(* generate_terms.  A term and a topic are texts; a reply of the agent is  *)
(* "" (kind "failed": an error, a timeout), a text in which no JSON array  *)
(* is found or parsed (kind "text"), or a text with a JSON array, of which *)
(* items are the values: a string, or <<>> for "", null, 0 and false.      *)
(***************************************************************************)
\* generate.py line 177: amount=5
amount == 5

Topics ==
    { <<>>,
      <<"A", "b">>,
      <<"C", "a", "b">>,
      <<"A", "b", " ", "C", "a", "b", " ", " ", "a", " ", "B", "a", "d">>,
      <<"a", "b", "c", " ", "b", "c", "a", " ", "c", "a", "b", " ",
        "a", "c", "b", " ", "b", "a", "c", " ", "c", "b", "a", " ",
        "d", "a", "b">> }

Reply(kind, items) == [kind |-> kind, items |-> items]

Replies ==
    { Reply("failed", <<>>),
      Reply("text", <<>>),
      Reply("array", <<>>),
      Reply("array", << <<"c", "a", "b">> >>),
      Reply("array", << <<>>, <<" ", "c", "a", "b", " ">>, <<"a">> >>),
      Reply("array", << <<>>, <<>> >>),
      Reply("array", << <<" ">> >>),
      Reply("array", << <<"a">>, <<"b">>, <<"c">>, <<"d">>, <<"a", "a">>,
                        <<"b", "b">>, <<"c", "c">> >>) }

\* --terms, parsed by main (lines 366-368): none, or terms that are not empty
UserTerms == { <<>>, << <<"c", "a", "b">>, <<"d", "a", "b">> >> }

\* str.lower
LowerText(t) == [i \in 1..Len(t) |-> lower(t[i])]

\* str.split()
RECURSIVE SplitAt(_, _)
SplitAt(t, word) ==
    LET done == IF word = <<>> THEN <<>> ELSE <<word>>
    IN  IF t = <<>> THEN done
        ELSE IF IsSpace(Head(t)) THEN done \o SplitAt(Tail(t), <<>>)
        ELSE SplitAt(Tail(t), Append(word, Head(t)))

split(t) == SplitAt(t, <<>>)

\* s[:n]
Prefix(s, n) == SubSeq(s, 1, Min(n, Len(s)))

\* verso_llm.py line 208
DefaultTerms ==
    << <<"n", "a", "t", "u", "r", "e">>,
       <<"t", "e", "c", "h", "n", "o", "l", "o", "g", "y">>,
       <<"b", "u", "s", "i", "n", "e", "s", "s">> >>

\* verso_llm.py lines 205-208
FallbackTerms(video_subject) ==
    LET fallback_words == split(LowerText(video_subject))
        fallback_terms == Prefix(SelectSeq(fallback_words,
                                           LAMBDA w : Len(w) > 2), amount)
    IN  IF fallback_terms # <<>> THEN fallback_terms ELSE DefaultTerms

\* verso_llm.py line 200: [str(t).strip() for t in terms[:amount] if t]
ListedTerms(terms) ==
    LET kept == SelectSeq(Prefix(terms, amount), LAMBDA t : t # <<>>)
    IN  [i \in 1..Len(kept) |-> strip(kept[i])]

\* verso_llm.py lines 158-208, the reply being that of call_verso_agent
generate_terms(video_subject, reply) ==
    IF reply.kind = "array" THEN ListedTerms(reply.items)
    ELSE FallbackTerms(video_subject)

\* verso_llm.py lines 158-162: the parameters of generate_terms
Parameters == {"video_subject", "video_script", "amount"}

\* generate.py lines 175-180: the arguments of the call, two positional and
\* two by keyword
CallKeywords == {"amount", "cinematic_style"}

\* the call binds its arguments; if not, Python raises a TypeError
Binds == CallKeywords \subseteq Parameters

InitTerms ==
    /\ SaveIdle
    /\ RunsIdle
    /\ FetchIdle
    /\ DiversityIdle
    /\ CacheIdle
    /\ VoiceIdle
    /\ ScoreIdle
    /\ JobIdle
    /\ video_subject_text \in Topics
    /\ agent_reply \in Replies
    /\ \/ tpc = "step2" /\ video_terms \in UserTerms
       \/ tpc = "call" /\ video_terms = <<>>
    /\ terms_result = <<>>

\* generate.py lines 170-183: step 2.  No handler stands between the call
\* and the end of main: an exception ends the job.
GenerateOrUseTerms ==
    /\ tpc = "step2"
    /\ IF video_terms # <<>>
       THEN tpc' = "voice" /\ UNCHANGED video_terms
       ELSE IF Binds
            THEN /\ video_terms' = generate_terms(video_subject_text, agent_reply)
                 /\ tpc' = "voice"
            ELSE tpc' = "raised" /\ UNCHANGED video_terms
    /\ UNCHANGED <<saveVars, fetchVars, voiceVars, scoreVars, jobVars, diversityVars,
                   cacheVars, runVars, video_subject_text, agent_reply,
                   terms_result>>

\* verso_llm.py line 221: generate_terms called with the arguments it has
CallGenerateTerms ==
    /\ tpc = "call"
    /\ terms_result' = <<generate_terms(video_subject_text, agent_reply)>>
    /\ tpc' = "called"
    /\ UNCHANGED <<saveVars, fetchVars, voiceVars, scoreVars, jobVars, diversityVars,
                   cacheVars, runVars, video_subject_text, agent_reply,
                   video_terms>>

NextTerms ==
    \/ GenerateOrUseTerms
    \/ CallGenerateTerms

SpecTerms == InitTerms /\ [][NextTerms]_vars

(***************************************************************************)
(* Calls of save_video, one after the other, on one directory that is      *)
(* empty at first.                                                         *)
(***************************************************************************)
MaxCalls == 3

\* two links, and a second link of the file of the first
SaveUrls == {1, 2, 101}

InitSave ==
    /\ TermsIdle
    /\ RunsIdle
    /\ FetchIdle
    /\ DiversityIdle
    /\ CacheIdle
    /\ VoiceIdle
    /\ ScoreIdle
    /\ JobIdle
    /\ save_dir = [p \in Paths |-> "none"]
    /\ save_calls = <<>>

\* lines 259-306: one call; hit says that the file was there (lines 271-274),
\* file is what the path holds when the call is over
SaveVideo ==
    /\ Len(save_calls) < MaxCalls
    /\ \E video_url \in SaveUrls, net \in NetOutcomes :
         LET r == save_video(video_url, save_dir, net)
             video_path == UrlWithoutQuery(video_url)
         IN  /\ save_dir' = r.files
             /\ save_calls' = Append(save_calls,
                                  [url |-> video_url,
                                   hit |-> save_dir[video_path] \in {"valid", "bad"},
                                   path |-> IF r.raised THEN 0 ELSE r.path,
                                   file |-> r.files[video_path]])
    /\ UNCHANGED <<fetchVars, voiceVars, scoreVars, jobVars, diversityVars,
                   cacheVars, runVars, termVars>>

NextSave == SaveVideo

SpecSave == InitSave /\ [][NextSave]_vars

\* the cues the synthesis may feed for a script
SpokenAs(text) ==
    {CuesOf(ContentsOfAll(NarrationFrom(text, <<>>), cut), pace) :
        cut \in Cuts, pace \in Paces}

\* range(3)
Attempts == 3

\* what an attempt may come to: the stream breaks, the stream brings audio
\* without boundaries, or all goes well
TtsOutcomes == {"raise", "empty", "ok"}

HasCues_Any(cues) == TRUE

\* line 170: not (not sub_maker or not sub_maker.cues)
HasCues(cues) == cues # <<>>

InitTts ==
    /\ SaveIdle
    /\ TermsIdle
    /\ RunsIdle
    /\ FetchIdle
    /\ DiversityIdle
    /\ CacheIdle
    /\ ScoreIdle
    /\ JobIdle
    /\ video_script \in {ScriptOf(n) : n \in Narrations}
    /\ tts_return = "running"
    /\ tts_log = <<>>
    /\ voice_file \in {"absent", "audio"}
    /\ sub_maker = <<>>
    /\ spc = "idle"
    /\ cue_idx = 0
    /\ start_time = -1
    /\ sub_line = <<>>
    /\ sub_index = 0
    /\ sub_items = <<>>
    /\ fallback_ran = FALSE
    /\ subtitle_file = <<>>

\* lines 154-179: one attempt of tts, and the return
TtsAttempt ==
    /\ tts_return = "running"
    /\ Len(tts_log) < Attempts
    /\ \E outcome \in TtsOutcomes :
         \E cues \in (IF outcome = "ok" THEN SpokenAs(video_script) ELSE {<<>>}) :
           LET completed == outcome \in {"empty", "ok"}
           IN  /\ tts_log' = Append(tts_log, outcome)
               /\ voice_file' = IF outcome = "raise" THEN "partial" ELSE "audio"
               /\ IF completed /\ HasCues(cues)
                  THEN /\ tts_return' = "SubMaker"
                       /\ sub_maker' = cues
                  ELSE /\ tts_return' = IF Len(tts_log) + 1 = Attempts
                                        THEN "None" ELSE "running"
                       /\ UNCHANGED sub_maker
    /\ UNCHANGED <<saveVars, termVars, runVars, fetchVars, diversityVars, cacheVars, scoreVars, jobVars, video_script, spc, cue_idx, start_time, sub_line,
                   sub_index, sub_items, fallback_ran, subtitle_file>>

NextTts == TtsAttempt

SpecTts == InitTts /\ [][NextTts]_vars

\* create_subtitle is entered with the SubMaker a successful tts returned
InitSub ==
    /\ SaveIdle
    /\ TermsIdle
    /\ RunsIdle
    /\ FetchIdle
    /\ DiversityIdle
    /\ CacheIdle
    /\ ScoreIdle
    /\ JobIdle
    /\ \E narration \in Narrations, cut \in Cuts, pace \in Paces :
         /\ video_script = ScriptOf(narration)
         /\ sub_maker = CuesOf(ContentsOfAll(narration, cut), pace)
    /\ tts_return = "SubMaker"
    /\ tts_log = <<"ok">>
    /\ voice_file = "audio"
    /\ spc = "loop"
    /\ cue_idx = 0
    /\ start_time = -1
    /\ sub_line = <<>>
    /\ sub_index = 0
    /\ sub_items = <<>>
    /\ fallback_ran = FALSE
    /\ subtitle_file = <<>>

\* lines 303 and 315
script_lines == split_string_by_punctuations(_format_text(video_script))

\* a loop whose cues begin with the event that completes the match
MatchCue_StartsAtMatch ==
    /\ spc = "loop"
    /\ cue_idx < Len(sub_maker)
    /\ LET cue == sub_maker[cue_idx + 1]
           start == IF start_time < 0 THEN cue.start ELSE start_time
           line == sub_line \o unescape(cue.content)
           sub_text == match_line(script_lines, line, sub_index)
       IN  IF sub_text # <<>>
           THEN /\ sub_index' = sub_index + 1
                /\ sub_items' = Append(sub_items,
                                       formatter(sub_index + 1, cue.start, cue.end,
                                                 sub_text))
                /\ start_time' = -1
                /\ sub_line' = <<>>
           ELSE /\ start_time' = start
                /\ sub_line' = line
                /\ UNCHANGED <<sub_index, sub_items>>
    /\ cue_idx' = cue_idx + 1
    /\ UNCHANGED <<saveVars, termVars, runVars, fetchVars, diversityVars, cacheVars,
                   scoreVars, jobVars, video_script, tts_return, tts_log,
                   voice_file, sub_maker, spc, fallback_ran, subtitle_file>>

\* a loop that passes over a sentence at every match
MatchCue_SkipsASentence ==
    /\ spc = "loop"
    /\ cue_idx < Len(sub_maker)
    /\ LET cue == sub_maker[cue_idx + 1]
           start == IF start_time < 0 THEN cue.start ELSE start_time
           line == sub_line \o unescape(cue.content)
           sub_text == match_line(script_lines, line, sub_index)
       IN  IF sub_text # <<>>
           THEN /\ sub_index' = sub_index + 2
                /\ sub_items' = Append(sub_items,
                                       formatter(sub_index + 2, start, cue.end, sub_text))
                /\ start_time' = -1
                /\ sub_line' = <<>>
           ELSE /\ start_time' = start
                /\ sub_line' = line
                /\ UNCHANGED <<sub_index, sub_items>>
    /\ cue_idx' = cue_idx + 1
    /\ UNCHANGED <<saveVars, termVars, runVars, fetchVars, diversityVars, cacheVars,
                   scoreVars, jobVars, video_script, tts_return, tts_log,
                   voice_file, sub_maker, spc, fallback_ran, subtitle_file>>

\* a loop that does not forget the start of the buffer on a match
MatchCue_KeepsStart ==
    /\ spc = "loop"
    /\ cue_idx < Len(sub_maker)
    /\ LET cue == sub_maker[cue_idx + 1]
           start == IF start_time < 0 THEN cue.start ELSE start_time
           line == sub_line \o unescape(cue.content)
           sub_text == match_line(script_lines, line, sub_index)
       IN  IF sub_text # <<>>
           THEN /\ sub_index' = sub_index + 1
                /\ sub_items' = Append(sub_items,
                                       formatter(sub_index + 1, start, cue.end, sub_text))
                /\ start_time' = start
                /\ sub_line' = <<>>
           ELSE /\ start_time' = start
                /\ sub_line' = line
                /\ UNCHANGED <<sub_index, sub_items>>
    /\ cue_idx' = cue_idx + 1
    /\ UNCHANGED <<saveVars, termVars, runVars, fetchVars, diversityVars, cacheVars, scoreVars, jobVars, video_script,
                   tts_return, tts_log, voice_file, sub_maker, spc, fallback_ran,
                   subtitle_file>>

\* lines 357-377: one cue of the primary strategy
MatchCue ==
    /\ spc = "loop"
    /\ cue_idx < Len(sub_maker)
    /\ LET cue == sub_maker[cue_idx + 1]
           start == IF start_time < 0 THEN cue.start ELSE start_time
           line == sub_line \o unescape(cue.content)
           sub_text == match_line(script_lines, line, sub_index)
       IN  IF sub_text # <<>>
           THEN /\ sub_index' = sub_index + 1
                /\ sub_items' = Append(sub_items,
                                       formatter(sub_index + 1, start, cue.end, sub_text))
                /\ start_time' = -1
                /\ sub_line' = <<>>
           ELSE /\ start_time' = start
                /\ sub_line' = line
                /\ UNCHANGED <<sub_index, sub_items>>
    /\ cue_idx' = cue_idx + 1
    /\ UNCHANGED <<saveVars, termVars, runVars, fetchVars, diversityVars, cacheVars, scoreVars, jobVars, video_script, tts_return, tts_log, voice_file,
                   sub_maker, spc, fallback_ran, subtitle_file>>

PrimarySucceeded_AllLines(items) == Len(items) >= Len(script_lines)

\* line 380: if sub_items
PrimarySucceeded(items) == items # <<>>

\* lines 379-396: the primary cues are written, or the fallback is run
WriteSubtitles ==
    /\ spc = "loop"
    /\ cue_idx = Len(sub_maker)
    /\ IF PrimarySucceeded(sub_items)
       THEN /\ subtitle_file' = sub_items
            /\ UNCHANGED <<sub_items, fallback_ran>>
       ELSE LET items == _create_fallback_subtitles(sub_maker)
            IN  /\ sub_items' = items
                /\ fallback_ran' = TRUE
                /\ subtitle_file' = IF items # <<>> THEN items ELSE subtitle_file
    /\ spc' = "done"
    /\ UNCHANGED <<saveVars, termVars, runVars, fetchVars, diversityVars, cacheVars, scoreVars, jobVars, video_script, tts_return, tts_log, voice_file,
                   sub_maker, cue_idx, start_time, sub_line, sub_index>>

NextSub ==
    \/ MatchCue
    \/ WriteSubtitles

SpecSub == InitSub /\ [][NextSub]_vars

(***************************************************************************)
(* What the download pass has done so far, recomputed from the members     *)
(* attempted and the log of their outcomes.                                *)
(***************************************************************************)
SavedUpTo(k) == {i \in 1..k : dl_log[i]}

\* the summed full duration of the clips saved among the first k members
FullDurationAt(k) ==
    SumSeq([i \in 1..k |-> IF dl_log[i] THEN valid_video_items[i].duration ELSE 0])

\* their summed usable duration: each clip counts up to max_clip_duration
UsableDurationAt(k) ==
    SumSeq([i \in 1..k |->
               IF dl_log[i]
               THEN Min(valid_video_items[i].duration, params.max_clip_duration)
               ELSE 0])

BothAt(k) ==
    /\ FullDurationAt(k) >= params.audio_duration * 2
    /\ Cardinality(SavedUpTo(k)) >= 10

Returned == pc = "done"

Exhausted == Returned /\ dl_idx = Len(valid_video_items)

(***************************************************************************)
(* C1 as stated: download_videos never returns clips whose summed USABLE   *)
(* duration is below twice the audio duration unless every member of the   *)
(* SelectionSet has been attempted.                                        *)
(***************************************************************************)
C1_UsableBudgetOrExhausted ==
    (Returned /\ ~Exhausted) => UsableDurationAt(dl_idx) >= params.audio_duration * 2

(***************************************************************************)
(* C1 as amended: download_videos never returns clips whose summed FULL    *)
(* duration is below twice the audio duration, or fewer than 10 saved      *)
(* members, unless every member of the SelectionSet has been attempted;    *)
(* with an audio duration of 30 s it then has at least 60 s from at least  *)
(* 10 members.                                                             *)
(***************************************************************************)
C1_FullBudgetOrExhausted ==
    (Returned /\ ~Exhausted) =>
        /\ FullDurationAt(dl_idx) >= params.audio_duration * 2
        /\ total_duration = FullDurationAt(dl_idx)
        /\ Len(video_paths) >= 10
        /\ Cardinality({valid_video_items[i].url : i \in SavedUpTo(dl_idx)}) >= 10
        /\ params.audio_duration = 30 => total_duration >= 60

C1_Witness ==
    /\ Returned /\ ~Exhausted
    /\ params.audio_duration = 30
    /\ total_duration >= 60
    /\ Len(video_paths) >= 10

C3_NoDuplicateURL ==
    /\ \A i, j \in 1..Len(valid_video_items) :
           valid_video_items[i].url = valid_video_items[j].url => i = j
    /\ \A i, j \in 1..Len(valid_video_urls) :
           valid_video_urls[i] = valid_video_urls[j] => i = j
    /\ {valid_video_items[i].url : i \in 1..Len(valid_video_items)}
           = Range(valid_video_urls)

\* a primary search and the fallback search both brought members in (any two
\* answers of the provider that are not empty share clips)
C3_Witness ==
    /\ pc = "shuffle"
    /\ "primary" \in Range(origin)
    /\ "fallback" \in Range(origin)

(***************************************************************************)
(* The members in the order of their acceptance, and the diversity test    *)
(* each of them meets against the members accepted before it.              *)
(***************************************************************************)
AcceptedItem(k) ==
    CHOOSE item \in Range(valid_video_items) : item.url = valid_video_urls[k]

\* valid_video_items as it was before the shuffle
AcceptedItems == [k \in 1..Len(valid_video_urls) |-> AcceptedItem(k)]

DiverseWhenAccepted(accepted, k) ==
    ~ScoreBelow(calculate_diversity_score(SubSeq(accepted, 1, k - 1), accepted[k]),
                params.diversity_threshold)

Selecting == pc \in {"search", "shuffle"}

(***************************************************************************)
(* C4 as stated: every member of the SelectionSet, from a primary search   *)
(* or from the fallback search, had an average diversity score of at least *)
(* the threshold against the members accepted before it.                   *)
(***************************************************************************)
C4_AllDiverse ==
    Selecting =>
        LET accepted == AcceptedItems
        IN  \A k \in 1..Len(accepted) : DiverseWhenAccepted(accepted, k)

(***************************************************************************)
(* C4 as amended: every member that a primary search brought in had an     *)
(* average diversity score of at least the threshold against the members   *)
(* accepted before it; the fallback search only leaves out known links.    *)
(***************************************************************************)
C4_PrimaryDiverse ==
    Selecting =>
        LET accepted == AcceptedItems
        IN  \A k \in 1..Len(accepted) :
                origin[k] = "primary" => DiverseWhenAccepted(accepted, k)

\* a primary search brought in a member behind others, under a threshold
C4_Witness ==
    /\ Selecting
    /\ params.diversity_threshold > 0
    /\ Len(valid_video_urls) >= 2
    /\ origin[2] = "primary"
    /\ Len(origin) = Len(valid_video_urls)

(***************************************************************************)
(* The job: main and generate_video_from_params.  tts and create_subtitle  *)
(* are followed step by step, by the actions above.  download_videos is    *)
(* taken as a whole, its return any list of saved paths (SpecFetch follows *)
(* it step by step), and so are the two calls of the video module, which   *)
(* is not among the sources: each leaves its output file or does not.      *)
(***************************************************************************)
\* --materials: local clips, found on the disk or not
LocalMaterials ==
    { <<>>,
      <<[url |-> 21, exists |-> TRUE]>>,
      <<[url |-> 21, exists |-> FALSE]>>,
      <<[url |-> 21, exists |-> FALSE], [url |-> 22, exists |-> TRUE]>> }

\* what download_videos may return
DownloadReturns == {<<>>, <<1>>, <<1, 2, 3>>}

JobScripts ==
    { <<"A", ".">>,
      <<"A", ".", " ", "B", ".", " ", "C", ".">> }

\* lines 95-99: with --out-dir the task directory is the output directory
\* itself, and an earlier job with the same --out-dir may have left its
\* combined.mp4 and final.mp4 there; without it the directory is new
LeftBehind == SUBSET {"combined", "final"}

InitJob ==
    /\ SaveIdle
    /\ TermsIdle
    /\ RunsIdle
    /\ FetchIdle
    /\ DiversityIdle
    /\ CacheIdle
    /\ ScoreIdle
    /\ video_script \in JobScripts
    /\ tts_return = "idle"
    /\ tts_log = <<>>
    /\ voice_file = "absent"
    /\ sub_maker = <<>>
    /\ spc = "idle"
    /\ cue_idx = 0
    /\ start_time = -1
    /\ sub_line = <<>>
    /\ sub_index = 0
    /\ sub_items = <<>>
    /\ fallback_ran = FALSE
    /\ subtitle_file = <<>>
    /\ jpc = "voice"
    /\ job_params \in [subtitle_enabled : BOOLEAN, video_materials : LocalMaterials]
    /\ stages = <<>>
    /\ result = [audio_file |-> FALSE, subtitle_path |-> FALSE, videos |-> <<>>]
    /\ video_files = <<>>
    /\ task_files = {}
    /\ stale_files \in LeftBehind
    /\ report = "none"
    /\ published = <<>>

\* lines 185-193: step 3, the call of voice.tts
GenerateVoice ==
    /\ jpc = "voice"
    /\ stages' = Append(stages, "voice")
    /\ tts_return' = "running"
    /\ jpc' = "tts"
    /\ UNCHANGED <<saveVars, termVars, runVars, fetchVars, diversityVars, cacheVars, scoreVars, video_script, tts_log, voice_file, sub_maker,
                   spc, cue_idx, start_time, sub_line, sub_index, sub_items,
                   fallback_ran, subtitle_file, job_params, result, video_files,
                   task_files, stale_files, report, published>>

\* lines 195-201: tts has returned
CheckVoice ==
    /\ jpc = "tts"
    /\ tts_return \in {"SubMaker", "None"}
    /\ IF tts_return = "None" \/ voice_file = "absent"
       THEN /\ jpc' = "returned"
            /\ UNCHANGED result
       ELSE /\ result' = [result EXCEPT !.audio_file = TRUE]
            /\ jpc' = "subtitle"
    /\ UNCHANGED <<saveVars, termVars, runVars, fetchVars, diversityVars, cacheVars, scoreVars, voiceVars, job_params, stages, video_files,
                   task_files, stale_files, report, published>>

\* lines 203-207: step 4, the call of voice.create_subtitle
GenerateSubtitles ==
    /\ jpc = "subtitle"
    /\ IF job_params.subtitle_enabled
       THEN /\ stages' = Append(stages, "subtitle")
            /\ spc' = "loop"
            /\ jpc' = "create_subtitle"
       ELSE /\ jpc' = "materials"
            /\ UNCHANGED <<stages, spc>>
    /\ UNCHANGED <<saveVars, termVars, runVars, fetchVars, diversityVars, cacheVars, scoreVars, video_script, tts_return, tts_log, voice_file,
                   sub_maker, cue_idx, start_time, sub_line, sub_index, sub_items,
                   fallback_ran, subtitle_file, job_params, result, video_files,
                   task_files, stale_files, report, published>>

\* lines 208-209: create_subtitle has returned
CheckSubtitles ==
    /\ jpc = "create_subtitle"
    /\ spc = "done"
    /\ result' = [result EXCEPT !.subtitle_path = subtitle_file # <<>>]
    /\ jpc' = "materials"
    /\ UNCHANGED <<saveVars, termVars, runVars, fetchVars, diversityVars, cacheVars, scoreVars, voiceVars, job_params, stages, video_files,
                   task_files, stale_files, report, published>>

\* lines 217-219: the local materials that exist
RECURSIVE ExistingMaterials(_)
ExistingMaterials(video_materials) ==
    IF video_materials = <<>> THEN <<>>
    ELSE (IF Head(video_materials).exists THEN <<Head(video_materials).url>> ELSE <<>>)
         \o ExistingMaterials(Tail(video_materials))

\* line 234: if not video_files
NoMaterials(clips) == clips = <<>>

\* lines 211-238: step 5, the materials
GetMaterials ==
    /\ jpc = "materials"
    /\ stages' = Append(stages, "materials")
    /\ \E paths \in (IF job_params.video_materials # <<>>
                     THEN {ExistingMaterials(job_params.video_materials)}
                     ELSE DownloadReturns) :
         /\ video_files' = paths
         /\ jpc' = IF NoMaterials(paths) THEN "returned" ELSE "combine"
    /\ UNCHANGED <<saveVars, termVars, runVars, fetchVars, diversityVars, cacheVars, scoreVars, voiceVars, job_params, result, task_files, stale_files,
                   report, published>>

\* lines 254, 270 and 424: os.path.exists of a video of the task directory
Exists(file) == file \in task_files \cup stale_files

\* lines 240-256: step 6, video.combine_videos; the call writes combined.mp4
\* over what is there, or fails and leaves or removes what is there
CombineVideos ==
    /\ jpc = "combine"
    /\ stages' = Append(stages, "combine")
    /\ \E made \in BOOLEAN :
         /\ task_files' = IF made THEN task_files \cup {"combined"} ELSE task_files
         /\ stale_files' \in (IF made THEN {stale_files \ {"combined"}}
                              ELSE {stale_files, stale_files \ {"combined"}})
    /\ jpc' = IF Exists("combined")' THEN "final" ELSE "returned"
    /\ UNCHANGED <<saveVars, termVars, runVars, fetchVars, diversityVars, cacheVars, scoreVars, voiceVars, job_params, result, video_files,
                   report, published>>

\* lines 258-273: step 7, video.generate_video
GenerateFinal ==
    /\ jpc = "final"
    /\ stages' = Append(stages, "final")
    /\ \E made \in BOOLEAN :
         /\ task_files' = IF made THEN task_files \cup {"final"} ELSE task_files
         /\ stale_files' \in (IF made THEN {stale_files \ {"final"}}
                              ELSE {stale_files, stale_files \ {"final"}})
    /\ result' = IF Exists("final")' THEN [result EXCEPT !.videos = Append(@, "final")]
                 ELSE result
    /\ jpc' = "returned"
    /\ UNCHANGED <<saveVars, termVars, runVars, fetchVars, diversityVars, cacheVars, scoreVars, voiceVars, job_params, video_files, report,
                   published>>

\* a report that clears the task directory of a failed job
Report_CleansUp ==
    /\ jpc = "returned"
    /\ IF result.videos # <<>>
       THEN /\ report' = "complete"
            /\ published' = SelectSeq(result.videos, Exists)
            /\ UNCHANGED <<voice_file, subtitle_file, video_files, task_files>>
       ELSE /\ report' = "failed"
            /\ voice_file' = "absent"
            /\ subtitle_file' = <<>>
            /\ video_files' = <<>>
            /\ task_files' = {}
            /\ UNCHANGED published
    /\ jpc' = "exit"
    /\ UNCHANGED <<saveVars, termVars, runVars, fetchVars, diversityVars, cacheVars, scoreVars, job_params, stages,
                   result, video_script, tts_return, tts_log, sub_maker, spc, cue_idx,
                   start_time, sub_line, sub_index, sub_items, fallback_ran,
                   stale_files>>

\* main, lines 416-452: the report
Report ==
    /\ jpc = "returned"
    /\ IF result.videos # <<>>
       THEN /\ report' = "complete"
            /\ published' = SelectSeq(result.videos, Exists)
       ELSE /\ report' = "failed"
            /\ UNCHANGED published
    /\ jpc' = "exit"
    /\ UNCHANGED <<saveVars, termVars, runVars, fetchVars, diversityVars, cacheVars, scoreVars, voiceVars, job_params, stages, result,
                   video_files, task_files, stale_files>>

NextJob ==
    \/ GenerateVoice
    \/ TtsAttempt
    \/ CheckVoice
    \/ GenerateSubtitles
    \/ MatchCue
    \/ WriteSubtitles
    \/ CheckSubtitles
    \/ GetMaterials
    \/ CombineVideos
    \/ GenerateFinal
    \/ Report

SpecJob == InitJob /\ [][NextJob]_vars

(***************************************************************************)
(* The captions.                                                           *)
(***************************************************************************)
CueTexts(items) == [k \in 1..Len(items) |-> items[k].text]

\* the text of an event is its content, the XML entities resolved
EventTexts == [k \in 1..Len(sub_maker) |-> unescape(sub_maker[k].content)]

EventContents == [k \in 1..Len(sub_maker) |-> sub_maker[k].content]

StripSpaces(t) == SelectSeq(t, LAMBDA c : ~IsSpace(c))

NumSentences == Cardinality({i \in 1..Len(video_script) : video_script[i] \in SentenceEnd})

\* the event texts say the script, letter for letter and mark for mark
Verbatim == StripSpaces(Flatten(EventTexts)) = StripSpaces(video_script)

\* the primary strategy has consumed every event
PrimaryOver == spc = "loop" /\ cue_idx = Len(sub_maker)

\* C5: when the event texts reproduce a script of N sentences verbatim, the
\* primary strategy of create_subtitle ends with exactly N cues, the k-th
\* carrying the words of the k-th sentence, so that the cue texts together
\* are the words of the script.  (The claim as the specification states it;
\* the texts are compared by their letters, which is the least the claim
\* asks.)
C5_OneCuePerSentence ==
    (PrimaryOver /\ Verbatim) =>
        /\ Len(sub_items) = NumSentences
        /\ \A k \in 1..Len(sub_items) :
             StripNonWord(sub_items[k].text) = StripNonWord(script_lines[k])
        /\ StripNonWord(Flatten(CueTexts(sub_items))) = StripNonWord(video_script)

\* a verbatim narration of two sentences or more, of which the primary
\* strategy captions fewer
C5_Witness ==
    /\ PrimaryOver /\ Verbatim
    /\ NumSentences >= 2
    /\ sub_items # <<>>
    /\ Len(sub_items) < NumSentences

ScenarioB ==
    /\ video_script = <<"A", ".", " ", "B", ".", " ", "C", ".">>
    /\ EventContents = << <<"A", ".">>, <<".">>, <<"B">>, <<".">>, <<"C">>, <<".">> >>

\* the same script, every full stop an event of its own
ScenarioApart ==
    /\ video_script = <<"A", ".", " ", "B", ".", " ", "C", ".">>
    /\ EventContents = << <<"A">>, <<".">>, <<"B">>, <<".">>, <<"C">>, <<".">> >>

\* C6: for the script "A. B. C." with the events "A.", ".", "B", ".", "C",
\* "." (or with every full stop an event of its own) create_subtitle writes
\* the cues of the primary strategy, three of them, for the sentences A, B
\* and C in this order, each starting later than the one before.
C6_ScenarioB ==
    ((ScenarioB \/ ScenarioApart) /\ spc = "done") =>
        /\ ~fallback_ran
        /\ CueTexts(subtitle_file) = << <<"A">>, <<"B">>, <<"C">> >>
        /\ \A k \in 1..(Len(subtitle_file) - 1) :
             subtitle_file[k].start_t < subtitle_file[k + 1].start_t

C6_Witness == ScenarioB /\ spc = "done" /\ Len(subtitle_file) = 3

C8_FallbackIffNoPrimaryCue ==
    [][ /\ (fallback_ran' /\ ~fallback_ran) =>
               (cue_idx = Len(sub_maker) /\ sub_items = <<>>)
        /\ (spc = "loop" /\ spc' = "done") =>
               /\ cue_idx = Len(sub_maker)
               /\ fallback_ran' <=> sub_items = <<>>
               /\ sub_items # <<>> =>
                      (subtitle_file' = sub_items /\ sub_items' = sub_items)
      ]_vars

\* the primary strategy held fewer cues than the script has sentences, and
\* these were written
C8_Witness ==
    /\ spc = "done" /\ ~fallback_ran
    /\ subtitle_file # <<>>
    /\ Len(subtitle_file) < NumSentences

\* the events come in the order of their emission, each ending after it began
EventsInOrder ==
    /\ \A k \in 1..Len(sub_maker) : sub_maker[k].start < sub_maker[k].end
    /\ \A k \in 1..(Len(sub_maker) - 1) : sub_maker[k].end <= sub_maker[k + 1].start

CuesInOrder(items) ==
    /\ \A k \in 1..Len(items) : items[k].start_t < items[k].end_t
    /\ \A k \in 1..(Len(items) - 1) :
         /\ items[k].start_t <= items[k + 1].start_t
         /\ items[k].end_t <= items[k + 1].start_t

\* C9: for events in the order of their emission, each with start < end, the
\* cues create_subtitle collects and the cues it writes, of the primary
\* strategy or of the fallback, each start before they end, start no earlier
\* than the cue before, and begin no earlier than the cue before ends (the
\* order of the events is kept).
C9_CuesInOrder ==
    EventsInOrder => (CuesInOrder(sub_items) /\ CuesInOrder(subtitle_file))

C9_Witness ==
    /\ spc = "done" /\ ~fallback_ran
    /\ Len(subtitle_file) = 3
    /\ subtitle_file[1].start_t > 0

\* C10: tts makes at most 3 attempts; every attempt but the last one made
\* failed (it raised or fed no cue), and after a failure short of the third
\* tts has not returned, so that a fresh attempt follows; tts returns the SubMaker of the first attempt that
\* fed a cue, and None exactly when 3 attempts were made and none fed one.
C10_ThreeAttempts ==
    /\ Len(tts_log) <= 3
    /\ \A k \in 1..(Len(tts_log) - 1) : tts_log[k] \in {"raise", "empty"}
    /\ tts_return = "running" => Len(tts_log) < 3
    /\ tts_return = "SubMaker" =>
           /\ tts_log[Len(tts_log)] = "ok"
           /\ sub_maker # <<>>
    /\ tts_return = "None" <=>
           (Len(tts_log) = 3 /\ \A k \in 1..3 : tts_log[k] \in {"raise", "empty"})

C10_Witness == tts_return = "SubMaker" /\ tts_log = <<"raise", "empty", "ok">>

(***************************************************************************)
(* The job.                                                                *)
(***************************************************************************)
Announced(stage) == stage \in Range(stages)

LastStage == stages[Len(stages)]

Exited == jpc = "exit"

\* C11: when tts returned None, or the materials step ended with no clip, or
\* a render step (combine, final) left no output file, the job ends there
\* (no later step is announced), main reports the failure, and no final
\* video is copied to the output directory -- none is ever copied but by a
\* job reported complete, whose final video exists; and a job that failed in
\* the materials step had no clip at all.
C11_FailuresAreReported ==
    /\ published # <<>> => (report = "complete" /\ "final" \in task_files)
    /\ Exited =>
         /\ tts_return = "None" => (report = "failed" /\ stages = <<"voice">>)
         /\ (Announced("materials") /\ video_files = <<>>) =>
                (report = "failed" /\ LastStage = "materials")
         /\ (Announced("combine") /\ "combined" \notin task_files) =>
                (report = "failed" /\ LastStage = "combine")
         /\ (Announced("final") /\ "final" \notin task_files) => report = "failed"
         /\ report = "failed" => published = <<>>
         /\ (report = "failed" /\ LastStage = "materials") => video_files = <<>>
         /\ report \in {"failed", "complete"}

\* download_videos returned no clip and the job was reported failed
C11_Witness ==
    /\ Exited /\ report = "failed"
    /\ LastStage = "materials"
    /\ job_params.video_materials = <<>>

StageOrder == <<"voice", "subtitle", "materials", "combine", "final">>

PositionOf(stage) == CHOOSE i \in DOMAIN StageOrder : StageOrder[i] = stage

DownloadFailed ==
    /\ pc = "download"
    /\ Len(dl_log') = Len(dl_log) + 1
    /\ ~dl_log'[Len(dl_log')]

\* C13: a download that fails (save_video raises or returns no path) leaves
\* the list of downloaded paths and the downloaded duration as they were and
\* does not end the pass: the pass ends only by the stop condition or with
\* every member of the SelectionSet attempted.
C13_FailedDownloadIsSkipped ==
    [][ /\ DownloadFailed =>
               /\ video_paths' = video_paths
               /\ total_duration' = total_duration
               /\ ~stopped'
               /\ pc' = "download" \/ dl_idx' = Len(valid_video_items)
        /\ (pc = "download" /\ pc' = "done") =>
               (stopped' \/ dl_idx' = Len(valid_video_items))
      ]_vars

\* a member was saved after an earlier one had failed
C13_Witness ==
    \E i, j \in DOMAIN dl_log : i < j /\ ~dl_log[i] /\ dl_log[j]

InDownload == pc \in {"download", "done"}

\* C14 as stated: the downloaded-duration counter is the sum, over the clips
\* saved so far, of the usable duration min(full duration, max_clip_duration).
C14_CounterIsUsable ==
    InDownload => total_duration = UsableDurationAt(dl_idx)

\* C14 as amended: the downloaded-duration counter is the sum, over the clips
\* saved so far, of their full durations (the cap is not applied); the
\* raw-found counter is another counter, the summed full duration of the
\* SelectionSet, which the download pass leaves alone.
C14_CounterIsFull ==
    /\ InDownload => total_duration = FullDurationAt(dl_idx)
    /\ ~InDownload => total_duration = 0
    /\ found_duration
         = SumSeq([i \in DOMAIN valid_video_items |-> valid_video_items[i].duration])

\* a clip longer than the cap has been saved
C14_Witness ==
    /\ InDownload
    /\ \E i \in SavedUpTo(dl_idx) :
          valid_video_items[i].duration > params.max_clip_duration
    /\ total_duration > UsableDurationAt(dl_idx)

(***************************************************************************)
(* The scorer.                                                             *)
(***************************************************************************)
Scored == quality_calls >= 1

ScoreOf(item) == Score(item, quality_minimum)

\* the least whole number that is at least 0.8 x n
RoundedUp80(n) == (n * 8 + 9) \div 10

RoundedDown80(n) == (n * 8) \div 10

\* output holds the top-scored items of input: as many items of every score
\* above the lowest kept one as input has, and none of a lower score
TopScored(input, output) ==
    \A i \in DOMAIN output, j \in DOMAIN input :
        ScoreOf(input[j]) > ScoreOf(output[i]) => input[j] \in Range(output)

\* C15 as stated: filter_by_quality returns every item of a list of at most
\* 10; of a list of n > 10 it returns exactly max(10, ceil(0.8 n)) items,
\* the top-scored ones; so it returns at least 10 of 10 or more.
C15_KeepsRoundedUp ==
    Scored =>
        LET n == Len(quality_input)
        IN  /\ n <= 10 => Len(quality_output) = n
            /\ n > 10 => Len(quality_output) = Max(10, RoundedUp80(n))
            /\ n >= 10 => Len(quality_output) >= 10
            /\ TopScored(quality_input, quality_output)

\* C15 as amended: filter_by_quality returns every item of a list of at most
\* 10; of a list of n > 10 it returns exactly max(10, floor(0.8 n)) items,
\* the top-scored ones; so it returns at least 10 of 10 or more.
C15_KeepsRoundedDown ==
    Scored =>
        LET n == Len(quality_input)
        IN  /\ n <= 10 => Len(quality_output) = n
            /\ n > 10 => Len(quality_output) = Max(10, RoundedDown80(n))
            /\ n >= 10 => Len(quality_output) >= 10
            /\ TopScored(quality_input, quality_output)

\* a list where rounding up and rounding down differ, cut to more than 10
C15_Witness ==
    /\ Scored
    /\ RoundedDown80(Len(quality_input)) > 10
    /\ RoundedUp80(Len(quality_input)) > RoundedDown80(Len(quality_input))
    /\ Len(quality_output) < Len(quality_input)

\* C16: what the search returns never holds a candidate shorter than
\* minimum_duration, whatever the bucket its duration falls in: the search
\* leaves it out before filter_by_quality sees it.
C16_NoneBelowMinimum ==
    Scored =>
        \A i \in DOMAIN quality_output :
            quality_output[i].duration >= quality_minimum

\* the provider answered with a usable clip shorter than the minimum whose
\* duration is in the ideal bucket, and with one in the wider bucket
C16_Witness ==
    /\ Scored
    /\ quality_output # <<>>
    /\ \E i, j \in DOMAIN quality_response :
         /\ quality_response[i].match
         /\ quality_response[i].duration < quality_minimum
         /\ quality_response[i].duration >= 10
         /\ quality_response[j].match
         /\ quality_response[j].duration < quality_minimum
         /\ quality_response[j].duration >= 8
         /\ quality_response[j].duration < 10

BaseOf(d) ==
    IF 10 <= d /\ d <= 30 THEN 10
    ELSE IF 8 <= d /\ d <= 40 THEN 5
    ELSE 2

BonusOf(d) == IF d >= 15 THEN 3 ELSE 0

\* C17: a candidate of duration d >= minimum_duration is scored base + bonus:
\* base 10 if 10 <= d <= 30, else 5 if 8 <= d <= 40, else 2; bonus 3 if
\* d >= 15, else 0.
C17_ScoreIsBasePlusBonus ==
    Scored =>
        \A i \in DOMAIN quality_input :
            quality_input[i].duration >= quality_minimum =>
                ScoreOf(quality_input[i]) =
                    BaseOf(quality_input[i].duration) + BonusOf(quality_input[i].duration)

\* candidates of every score were scored: 13, 10, 8, 5 and 2
C17_Witness ==
    /\ Scored
    /\ \A score \in {13, 10, 8, 5, 2} :
         \E i \in DOMAIN quality_input :
            /\ quality_input[i].duration >= quality_minimum
            /\ ScoreOf(quality_input[i]) = score

\* the place of a candidate in a list
PlaceIn(list, item) == CHOOSE i \in DOMAIN list : list[i] = item

\* C18: the output of filter_by_quality is in non-increasing order of score,
\* and two candidates of equal score are in the order they had in the input.
C18_StableDescending ==
    Scored =>
        \A i, j \in DOMAIN quality_output :
            i < j =>
                /\ ScoreOf(quality_output[i]) >= ScoreOf(quality_output[j])
                /\ ScoreOf(quality_output[i]) = ScoreOf(quality_output[j]) =>
                       PlaceIn(quality_input, quality_output[i])
                           < PlaceIn(quality_input, quality_output[j])

\* the sort moved a candidate forward, past others, to candidates of its score
C18_Witness ==
    /\ Scored
    /\ \E i, j \in DOMAIN quality_output :
         /\ i < j
         /\ ScoreOf(quality_output[i]) = ScoreOf(quality_output[j])
         /\ PlaceIn(quality_input, quality_output[j]) > j
    /\ \E i, j \in DOMAIN quality_input :
         /\ i < j
         /\ ScoreOf(quality_input[i]) < ScoreOf(quality_input[j])

\* every candidate of the input is long enough
AllLongEnough ==
    \A i \in DOMAIN quality_input : quality_input[i].duration >= quality_minimum

\* C19 as stated: of a list whose candidates all have a duration of at least
\* minimum_duration, filter_by_quality drops none.
C19_NeverDrops ==
    (Scored /\ AllLongEnough) =>
        Range(quality_input) \subseteq Range(quality_output)

\* C19 as amended: of such a list of at most 10 candidates,
\* filter_by_quality drops none; of a longer one it drops only candidates
\* that are not among the max(10, floor(0.8 n)) top-scored, and returns
\* nothing that was not in the list.
C19_DropsOnlyTheLowest ==
    (Scored /\ AllLongEnough) =>
        LET n == Len(quality_input)
        IN  /\ Range(quality_output) \subseteq Range(quality_input)
            /\ n <= 10 => Range(quality_input) \subseteq Range(quality_output)
            /\ n > 10 =>
                 /\ Len(quality_output) = Max(10, RoundedDown80(n))
                 /\ \A item \in Range(quality_input) \ Range(quality_output) :
                      \A i \in DOMAIN quality_output :
                         ScoreOf(item) <= ScoreOf(quality_output[i])

\* a list of more than 10 long enough candidates lost some, and the ones
\* lost score less than one that was kept
C19_Witness ==
    /\ Scored
    /\ AllLongEnough
    /\ Len(quality_input) > 10
    /\ \E item \in Range(quality_input) \ Range(quality_output) :
         ScoreOf(item) < ScoreOf(quality_output[1])

\* filter_by_quality was given its own output
Rescored == quality_calls = 2

\* C20 as stated: filter_by_quality, given its own output and the same
\* minimum_duration, returns the identical list in the identical order.
C20_RescoringIsIdentity ==
    Rescored => quality_output = quality_input

\* C20 as amended: filter_by_quality, given its own output and the same
\* minimum_duration, returns its first max(10, floor(0.8 m)) candidates
\* in the identical order when it has m > 10 candidates, and the identical
\* list when it has at most 10.
C20_RescoringKeepsTheOrder ==
    Rescored =>
        LET m == Len(quality_input)
        IN  /\ m <= 10 => quality_output = quality_input
            /\ m > 10 =>
                 quality_output = SubSeq(quality_input, 1, Max(10, RoundedDown80(m)))

\* an output of more than 10 candidates of several scores was scored again
C20_Witness ==
    /\ Rescored
    /\ Len(quality_input) > 10
    /\ ScoreOf(quality_input[1]) > ScoreOf(quality_input[Len(quality_input)])

(***************************************************************************)
(* The diversity selector.                                                 *)
(***************************************************************************)
\* this step issued a search
Searching == Len(searches') = Len(searches) + 1

LastSearch == searches[Len(searches)]

\* C21: with nothing accepted yet the diversity score is 1.0, which no
\* threshold of [0, 1] exceeds: the first candidate of a search result
\* offered to an empty SelectionSet is accepted, by the primary merge as by
\* the fallback merge.
C21_FirstCandidateAccepted ==
    [][ (Searching /\ valid_video_items = <<>> /\ LastSearch'.first # 0) =>
            /\ valid_video_urls' # <<>>
            /\ valid_video_urls'[1] = LastSearch'.first
            /\ ~ScoreBelow(calculate_diversity_score(valid_video_items,
                                                     valid_video_items'[1]),
                           params.diversity_threshold) ]_vars

\* under the strictest threshold, 1.0, a search that found nothing was
\* followed by one that found clips, and its first clip was accepted
C21_Witness ==
    /\ Len(searches) >= 2
    /\ searches[1].first = 0
    /\ searches[2].first # 0
    /\ params.diversity_threshold = 100
    /\ valid_video_urls # <<>>
    /\ valid_video_urls[1] = searches[2].first

\* the pairwise contribution, in hundredths
DurationPart(a, b) ==
    IF Abs(a.duration - b.duration) > 10 THEN 40
    ELSE IF Abs(a.duration - b.duration) > 5 THEN 20
    ELSE 0

ProviderPart(a, b) == IF a.provider # b.provider THEN 30 ELSE 0

UrlPart(a, b) == IF a.url # b.url THEN 30 ELSE 0

Contribution(a, b) == DurationPart(a, b) + ProviderPart(a, b) + UrlPart(a, b)

Calculated == div_score # <<>>

\* C22: for a list of selected videos that is not empty,
\* calculate_diversity_score returns the average over its members of
\* (0.4 if the durations differ by more than 10 s, 0.2 if by more than 5 s
\* and at most 10 s, else 0) + (0.3 if the providers differ) + (0.3 if the
\* links differ); the result is between 0 and 1.
C22_AverageOfContributions ==
    (Calculated /\ div_existing # <<>>) =>
        /\ div_score[1].den = Len(div_existing)
        /\ div_score[1].num =
               SumSeq([i \in DOMAIN div_existing |->
                          Contribution(div_existing[i], div_new)])
        /\ 0 <= div_score[1].num
        /\ div_score[1].num <= 100 * div_score[1].den

\* a score that averages two different contributions, one of them with a
\* duration difference of exactly 10 s, a different provider and the same link
C22_Witness ==
    /\ Calculated
    /\ Len(div_existing) >= 2
    /\ Abs(div_existing[1].duration - div_new.duration) = 10
    /\ div_existing[1].provider # div_new.provider
    /\ div_existing[1].url = div_new.url
    /\ Contribution(div_existing[1], div_new) = 50
    /\ Contribution(div_existing[2], div_new) = 100
    /\ div_score[1].num = 150

(***************************************************************************)
(* The artifacts of a job.                                                 *)
(***************************************************************************)
\* C23: once a step is over, what it left on disk stays as it is whatever
\* becomes of the later steps: the audio file after the voice step, the
\* caption file after the subtitle step, the clips after the materials
\* step; no step and no report removes or rewrites them.
C23_ArtifactsAreKept ==
    [][ /\ result.audio_file => voice_file' = voice_file
        /\ jpc \notin {"voice", "tts", "subtitle", "create_subtitle"} =>
               subtitle_file' = subtitle_file
        /\ Announced("materials") => video_files' = video_files
        /\ task_files \subseteq task_files' ]_vars

\* a job that failed at its last step, with its audio file, its caption
\* file, its clips and the combined video left behind
C23_Witness ==
    /\ Exited
    /\ report = "failed"
    /\ LastStage = "final"
    /\ voice_file = "audio"
    /\ subtitle_file # <<>>
    /\ video_files # <<>>
    /\ "combined" \in task_files

(***************************************************************************)
(* Two jobs at once.                                                       *)
(***************************************************************************)
\* the job is between open and the end of the with block on this file
Writing(job, file) ==
    /\ workers[job].at \in {"request", "write", "close"}
    /\ CurrentFile(job) = file

\* the job took this file for one of its clips
Took(job, file) == file \in Range(workers[job].paths)

\* C24: no file is shared between jobs: a clip file is read or written by
\* one job only, and no job takes for a clip a file that another job is
\* still writing.
C24_NoSharedFile ==
    /\ \A file \in ClipFiles : Cardinality(file_users[file]) <= 1
    /\ \A file \in ClipFiles, a, b \in JobIds :
          (a # b /\ Writing(a, file)) => ~Took(b, file)

\* with no material_directory configured, job 2 took for its clip the file
\* of which job 1 has written only a part
C24_Witness ==
    /\ material_directory = ""
    /\ Writing(1, <<0, 1>>)
    /\ cache_disk[<<0, 1>>] = "partial"
    /\ Took(2, <<0, 1>>)

(***************************************************************************)
(* The fallback search.                                                    *)
(***************************************************************************)
FallbackSearches == {i \in DOMAIN searches : searches[i].kind = "fallback"}

\* this step ends the search phase
LeavingSearch == pc = "search" /\ pc' = "shuffle"

\* C25: the fallback search is issued exactly when a fallback subject is
\* configured and the raw found duration, once all the primary terms were
\* gone through, is below 3 x the audio duration; there is at most one such
\* search in a job, and it comes after the searches of all the primary terms.
C25_FallbackIffShort ==
    /\ [](/\ Cardinality(FallbackSearches) <= 1
          /\ \A i \in FallbackSearches :
                /\ i = Len(searches)
                /\ i = params.search_terms + 1
                /\ pc # "search")
    /\ [][ /\ LeavingSearch =>
                /\ term_idx = params.search_terms
                /\ Len(searches) = params.search_terms
                /\ Searching <=> (/\ params.video_subject
                                  /\ found_duration < params.audio_duration * 3)
           /\ (Searching /\ ~LeavingSearch) =>
                  (LastSearch'.kind = "primary" /\ term_idx < params.search_terms)
           /\ (Searching /\ LeavingSearch) => LastSearch'.kind = "fallback" ]_vars

\* a fallback search that followed two primary searches which had found
\* clips, but less than 3 x the audio duration
C25_Witness ==
    /\ pc = "shuffle"
    /\ Len(searches) >= 3
    /\ LastSearch.kind = "fallback"
    /\ "primary" \in Range(origin)
    /\ "fallback" \in Range(origin)

\* the raw found duration at the moment the k-th member was offered
FoundBefore(k) == SumSeq([i \in 1..(k - 1) |-> AcceptedItems[i].duration])

\* C26: the fallback merge stops as soon as the raw found duration reaches
\* 6 x the audio duration: every member the fallback search brought in was
\* added at a moment when the raw found duration was still below it.
C26_FallbackStopsAtCeiling ==
    \A k \in DOMAIN origin :
        origin[k] = "fallback" => FoundBefore(k) < params.audio_duration * 6

\* the fallback merge brought in several members and stopped at the ceiling
C26_Witness ==
    /\ pc = "shuffle"
    /\ searches # <<>>
    /\ LastSearch.kind = "fallback"
    /\ found_duration >= params.audio_duration * 6
    /\ Cardinality({k \in DOMAIN origin : origin[k] = "fallback"}) >= 2
    /\ FoundBefore(Len(origin)) < params.audio_duration * 6

(***************************************************************************)
(* The end of the download pass.                                           *)
(***************************************************************************)
\* the paths of the members saved so far, in the order of the pass
SavedPaths ==
    LET saved == SelectSeq([i \in 1..dl_idx |-> i], LAMBDA i : dl_log[i])
    IN  [n \in 1..Len(saved) |-> UrlWithoutQuery(valid_video_items[saved[n]].url)]

\* C27: the download pass ends.  Each member of the SelectionSet is
\* attempted once at most, one after the other; a pass that has gone
\* through all the members without the stop condition (EXHAUSTED) returns
\* exactly the clips it has saved.
C27_PassTerminates ==
    /\ [](/\ Len(dl_log) = dl_idx
          /\ dl_idx <= Len(valid_video_items)
          /\ (Returned /\ ~stopped) =>
                 /\ dl_idx = Len(valid_video_items)
                 /\ video_paths = SavedPaths)
    /\ [][ /\ dl_idx' \in {dl_idx, dl_idx + 1}
           /\ pc = "download" => dl_idx' = dl_idx + 1 ]_vars
    /\ (pc = "download") ~> Returned

\* a pass that went through a SelectionSet of several members, lost one of
\* them, and returned the others without having met the stop condition
C27_Witness ==
    /\ Returned
    /\ ~stopped
    /\ dl_idx = Len(valid_video_items)
    /\ dl_idx >= 3
    /\ Failures >= 1
    /\ Len(video_paths) = dl_idx - Failures

(***************************************************************************)
(* The fourth comparison of match_line.                                    *)
(***************************************************************************)
\* |charSet(a) n charSet(b)| / |charSet(a) u charSet(b)| of the cleaned texts
Jaccard(text1, text2) ==
    [num |-> Cardinality(Range(clean_text(text1)) \cap Range(clean_text(text2))),
     den |-> Cardinality(Range(clean_text(text1)) \cup Range(clean_text(text2)))]

SameRatio(p, q) == p.num * q.den = q.num * p.den

\* the loop is about to compare a buffer with a script line
Comparing ==
    /\ spc = "loop"
    /\ cue_idx < Len(sub_maker)
    /\ sub_index < Len(script_lines)

\* the buffer and the line of the next comparison
NextBuffer == sub_line \o unescape(sub_maker[cue_idx + 1].content)

CurrentLine == script_lines[sub_index + 1]

\* C28: the similarity _fuzzy_match_text returns for two texts that are not
\* empty once cleaned is the Jaccard similarity of their character sets, and
\* so the fourth comparison succeeds exactly when that similarity is at
\* least 0.80.
C28_FuzzyIsJaccard ==
    (/\ Comparing
     /\ clean_text(NextBuffer) # <<>>
     /\ clean_text(CurrentLine) # <<>>) =>
        /\ SameRatio(_fuzzy_match_text(NextBuffer, CurrentLine),
                     Jaccard(NextBuffer, CurrentLine))
        /\ AtLeastThreshold(_fuzzy_match_text(NextBuffer, CurrentLine))
               <=> AtLeastThreshold(Jaccard(NextBuffer, CurrentLine))

\* the first event alone was taken for the first line by the fourth
\* comparison, with a Jaccard similarity below 0.80
C28_Witness ==
    /\ spc = "loop"
    /\ cue_idx = 1
    /\ sub_index = 1
    /\ Len(sub_items) = 1
    /\ LET buffer == unescape(sub_maker[1].content)
           line == script_lines[1]
       IN  /\ StripNonWord(buffer) # StripNonWord(line)
           /\ StripPunctuation(buffer) # StripPunctuation(line)
           /\ AtLeastThreshold(_fuzzy_match_text(buffer, line))
           /\ ~AtLeastThreshold(Jaccard(buffer, line))

(***************************************************************************)
(* One event of the primary strategy.                                      *)
(***************************************************************************)
\* the loop takes the next event in this step
TakingEvent == spc = "loop" /\ cue_idx' = cue_idx + 1

ThisEvent == sub_maker[cue_idx + 1]

\* the buffer with this event matches the current line
PrimaryMatch == match_line(script_lines, NextBuffer, sub_index) # <<>>

\* the texts of the events f .. cue_idx, one after the other
BufferFrom(f) ==
    Flatten([i \in 1..(cue_idx - f + 1) |-> unescape(sub_maker[f + i - 1].content)])

\* the first event accumulated since the previous match, this event
\* included
FirstAccumulated ==
    IF sub_line = <<>> THEN cue_idx + 1
    ELSE CHOOSE f \in 1..cue_idx : BufferFrom(f) = sub_line

LastItem(items) == items[Len(items)]

\* C29: on a match at an event one cue is emitted, from the start of the
\* first event accumulated since the previous match (or since the
\* beginning) to the end of this event; the index advances by one and the
\* buffer and its recorded start are reset.  On a non-match no cue is
\* emitted and the index stays; the buffer grows by the text of the event,
\* and the recorded start stays the start of the first event accumulated.
C29_MatchEmitsAndResets ==
    /\ [](spc = "loop" =>
             /\ (sub_line = <<>>) <=> (start_time < 0)
             /\ sub_line # <<>> =>
                    /\ \E f \in 1..cue_idx : BufferFrom(f) = sub_line
                    /\ start_time = sub_maker[FirstAccumulated].start)
    /\ [][ /\ (TakingEvent /\ PrimaryMatch) =>
                /\ Len(sub_items') = Len(sub_items) + 1
                /\ SubSeq(sub_items', 1, Len(sub_items)) = sub_items
                /\ LastItem(sub_items').start_t
                       = mktimestamp(sub_maker[FirstAccumulated].start)
                /\ LastItem(sub_items').end_t = mktimestamp(ThisEvent.end)
                /\ sub_index' = sub_index + 1
                /\ sub_line' = <<>>
                /\ start_time' < 0
           /\ (TakingEvent /\ ~PrimaryMatch) =>
                /\ sub_items' = sub_items
                /\ sub_index' = sub_index
                /\ sub_line' = sub_line \o unescape(ThisEvent.content)
                /\ start_time' = sub_maker[FirstAccumulated].start ]_vars

\* a second cue that was emitted at an event later than the one its buffer
\* began with
C29_Witness ==
    /\ spc = "loop"
    /\ sub_index >= 2
    /\ Len(sub_items) = sub_index
    /\ sub_line = <<>>
    /\ cue_idx >= 3
    /\ LastItem(sub_items).end_t = mktimestamp(sub_maker[cue_idx].end)
    /\ LastItem(sub_items).start_t < mktimestamp(sub_maker[cue_idx].start)
    /\ LastItem(sub_items).start_t > sub_items[1].end_t

(***************************************************************************)
(* The groups of the fallback strategy, from the offsets of the events.    *)
(***************************************************************************)
\* the event k closes the group that began at the event g
ClosesGroup(g, k) ==
    \/ sub_maker[k].end - sub_maker[g].start
           >= max_duration_per_line * TicksPerSecond
    \/ k = Len(sub_maker)

\* the groups from the event k on, the open one having begun at g
RECURSIVE GroupsFrom(_, _)
GroupsFrom(g, k) ==
    IF k > Len(sub_maker) THEN <<>>
    ELSE IF ClosesGroup(g, k)
         THEN <<[first |-> g, last |-> k]>> \o GroupsFrom(k + 1, k + 1)
         ELSE GroupsFrom(g, k + 1)

\* C30: when the fallback strategy has run, its cues are, one for one and in
\* order, the groups of events that each end at the first event whose end
\* offset is at least 3.0 s after the start offset of the group's first event,
\* or at the final event; each cue spans from the start of its group's first
\* event to the end of its group's last event, and the event after a closing
\* one begins the next group.
C30_ClosedExactlyAtThreshold ==
    (spc = "done" /\ fallback_ran) =>
        LET groups == GroupsFrom(1, 1)
        IN  /\ Len(sub_items) = Len(groups)
            /\ \A n \in 1..Len(groups) :
                 /\ sub_items[n].start_t
                        = mktimestamp(sub_maker[groups[n].first].start)
                 /\ sub_items[n].end_t
                        = mktimestamp(sub_maker[groups[n].last].end)

\* the fallback has run on events of which the second ends exactly 3.0 s
\* after the first began, and more events follow
C30_Witness ==
    /\ spc = "done" /\ fallback_ran
    /\ Len(sub_maker) >= 4
    /\ sub_maker[2].end - sub_maker[1].start
           = max_duration_per_line * TicksPerSecond
    /\ Len(sub_items) >= 2

(***************************************************************************)
(* The order of the decisions.                                             *)
(***************************************************************************)
\* the candidates of the first n search terms, term after term, each term's
\* in the order search_videos returned them
RECURSIVE OfferedUpTo(_)
OfferedUpTo(n) ==
    IF n = 0 THEN <<>> ELSE OfferedUpTo(n - 1) \o ScorerOutput(n)

\* the selection of one pass over these candidates, from none
InOrder(n) ==
    MergePrimary(NoSelection, OfferedUpTo(n), params.diversity_threshold)

\* and what the search for the subject adds to it
WithFallback(sel) ==
    IF RunNeedsFallback(sel)
    THEN MergeFallback(sel, ScorerOutput(params.search_terms + 1),
                       required_raw_duration)
    ELSE sel

\* the run has not shuffled yet
BeforeShuffle(r) == runs[r].pc \in {"search", "shuffle"}

FetcherState ==
    CASE pc = "search" -> "SEARCHING"
      [] pc \in {"shuffle", "download"} -> "DOWNLOADING"
      [] pc = "done" /\ stopped -> "SUFFICIENT"
      [] OTHER -> "EXHAUSTED"

FetcherRank(state) ==
    CASE state = "SEARCHING" -> 0
      [] state = "DOWNLOADING" -> 1
      [] OTHER -> 2

\* the members of the SelectionSet, whatever their order
Members(items) == {items[i] : i \in DOMAIN items}

\* C32: the fetcher never moves back from a state to an earlier one, and
\* once it has left SEARCHING no step issues a search, and no step adds a
\* member to the SelectionSet or removes one: a step changes at most the
\* order of the members.
C32_ForwardAndFrozen ==
    [][ /\ FetcherRank(FetcherState') >= FetcherRank(FetcherState)
        /\ FetcherState # "SEARCHING" =>
             /\ searches' = searches
             /\ term_idx' = term_idx
             /\ Len(valid_video_items') = Len(valid_video_items)
             /\ Members(valid_video_items') = Members(valid_video_items)
             /\ valid_video_urls' = valid_video_urls
             /\ found_duration' = found_duration ]_vars

\* a pass that shuffled its members, lost a download and went through all
\* of its four members or more
C32_Witness ==
    /\ pc = "done" /\ ~stopped
    /\ Len(valid_video_items) >= 4
    /\ dl_idx = Len(valid_video_items)
    /\ \E i \in DOMAIN dl_log : ~dl_log[i]
    /\ \E i \in DOMAIN dl_log : dl_log[i]
    /\ valid_video_items[1].url # valid_video_urls[1]
    /\ Len(searches) >= 2

(***************************************************************************)
(* The search terms of a job.                                              *)
(***************************************************************************)
\* the terms of the generator: the strings of its array that are not empty,
\* the first N
GeneratorTerms ==
    IF agent_reply.kind = "array"
    THEN SelectSeq(ListedTerms(agent_reply.items), LAMBDA t : t # <<>>)
    ELSE <<>>

\* the first N words of the topic of more than two characters
FirstWords ==
    Prefix(SelectSeq(split(LowerText(video_subject_text)),
                     LAMBDA w : Len(w) > 2), amount)

\* a term list is the generator's, or the fallback when the generator gave
\* none (a topic without such words leaves the fallback open)
GeneratedOrFallback(terms) ==
    /\ terms # <<>>
    /\ IF GeneratorTerms # <<>> THEN terms = GeneratorTerms
       ELSE FirstWords # <<>> => terms = FirstWords

\* step 2 goes on to step 3 with a term list that is not empty
TermsReachVoice ==
    /\ tpc # "raised"
    /\ tpc = "voice" => video_terms # <<>>

\* generate_terms returns the generator's terms or the fallback
TermsAreGeneratedOrFallback ==
    tpc = "called" => GeneratedOrFallback(terms_result[1])

\* C33: when the user gives no search terms, step 2 ends with a term list
\* that is not empty, the generator's or else the first N non-trivial words
\* of the topic, and the job goes on to the narration: step 2 never ends the
\* job, and generate_terms never returns an empty list.
C33_TermsNeverEmpty ==
    /\ TermsReachVoice
    /\ TermsAreGeneratedOrFallback

\* a job with a topic and without terms of the user has gone through step 2
C33_Witness ==
    /\ tpc \in {"voice", "raised"}
    /\ video_terms = <<>>
    /\ Len(FirstWords) >= 2
    /\ agent_reply.kind = "array" /\ Len(GeneratorTerms) >= 2

(***************************************************************************)
(* The clip cache of save_video.                                           *)
(***************************************************************************)
\* the call returned a path
ReturnedPath(call) == call.path # 0

\* an earlier call for the link of the k-th call returned no path
FailedBefore(k) ==
    \E j \in 1..(k - 1) :
        /\ save_calls[j].url = save_calls[k].url
        /\ ~ReturnedPath(save_calls[j])

\* C34: in a sequence of calls of save_video on one directory, a call
\* returns a path only for a file that is playable (duration > 0 and
\* fps > 0), and a call that finds the file of its link already there
\* returns it only if no earlier call for this link returned a failure.
C34_OnlyValidatedFiles ==
    \A k \in DOMAIN save_calls :
        ReturnedPath(save_calls[k]) =>
            /\ save_calls[k].file = "valid"
            /\ save_calls[k].hit => ~FailedBefore(k)

\* a call for a link failed, and a later call for the same link found a
\* file of that name
C34_Witness ==
    \E k \in DOMAIN save_calls :
        /\ FailedBefore(k)
        /\ save_calls[k].hit

(***************************************************************************)
(* The unique sources.                                                     *)
(***************************************************************************)
\* two members of the SelectionSet whose links differ by the query string
\* only, both attempted by the download loop
SameFileTwice ==
    \E i, j \in 1..dl_idx :
        /\ i # j
        /\ valid_video_items[i].url # valid_video_items[j].url
        /\ UrlWithoutQuery(valid_video_items[i].url)
               = UrlWithoutQuery(valid_video_items[j].url)

\* C35: the paths download_videos collects are pairwise distinct, so that
\* the number of paths the stop test compares with min_unique_sources is the
\* number of distinct files downloaded.
C35_PathsAreDistinct ==
    /\ \A i, j \in DOMAIN video_paths : video_paths[i] = video_paths[j] => i = j
    /\ stopped => Cardinality(Range(video_paths)) >= min_unique_sources

\* the download loop has gone through two members that are links of one
\* file, and has a path for each of them
C35_Witness ==
    /\ SameFileTwice
    /\ \E i, j \in 1..dl_idx :
         /\ i # j /\ dl_log[i] /\ dl_log[j]
         /\ UrlWithoutQuery(valid_video_items[i].url)
               = UrlWithoutQuery(valid_video_items[j].url)

(***************************************************************************)
(* The order of the cues of the primary strategy.                          *)
(***************************************************************************)
\* the text match_line returns for the k-th sentence: the sentence, or the
\* sentence without its punctuation, without the spaces around
TextOfLine(line) == {strip(line), strip(StripPunctuation(line))}

TextOfSentence(k) == TextOfLine(script_lines[k])

\* the cues are those of the primary strategy
PrimaryCues == spc \in {"loop", "done"} /\ ~fallback_ran

\* C36: the cues of the primary strategy follow the sentences of the script
\* without a skip: the k-th cue has the index k and the text of the k-th
\* sentence, there are never more cues than sentences, an event adds at most
\* the cue of the sentence at the current index, and once every sentence has
\* its cue the events that remain add none.
C36_CuesFollowSentences ==
    /\ [](PrimaryCues =>
            LET lines == script_lines IN
            /\ Len(sub_items) <= Len(lines)
            /\ sub_index = Len(sub_items)
            /\ \A k \in DOMAIN sub_items :
                 /\ sub_items[k].idx = k
                 /\ sub_items[k].text \in TextOfLine(lines[k]))
    /\ [][ TakingEvent =>
             \/ sub_items' = sub_items /\ sub_index' = sub_index
             \/ LET lines == script_lines IN
                /\ sub_index < Len(lines)
                /\ sub_index' = sub_index + 1
                /\ Len(sub_items') = Len(sub_items) + 1
                /\ SubSeq(sub_items', 1, Len(sub_items)) = sub_items
                /\ LastItem(sub_items').text \in TextOfLine(lines[sub_index + 1]) ]_vars

\* a script of three sentences, each of which has its cue, and events were
\* left when the third was emitted
C36_Witness ==
    /\ spc = "done" /\ ~fallback_ran
    /\ Len(script_lines) = 3
    /\ Len(subtitle_file) = 3
    /\ subtitle_file[3].end_t < mktimestamp(sub_maker[Len(sub_maker)].end)

(***************************************************************************)
(* The events the cues of the primary strategy cover.                      *)
(***************************************************************************)
\* the event lies within the span of the cue, both as timestamps
Within(event, item) ==
    /\ item.start_t <= mktimestamp(event.start)
    /\ mktimestamp(event.end) <= item.end_t

CuesOver(event) == {k \in DOMAIN subtitle_file : Within(event, subtitle_file[k])}

\* no cue begins before the one before it has ended
NoOverlap ==
    \A k \in 1..(Len(subtitle_file) - 1) :
        subtitle_file[k].end_t <= subtitle_file[k + 1].start_t

\* create_subtitle has written the cues of the primary strategy
PrimaryWritten == spc = "done" /\ ~fallback_ran /\ subtitle_file # <<>>

\* the event ends after the last cue has ended
AfterLastCue(event) ==
    mktimestamp(event.end) > LastItem(subtitle_file).end_t

\* C37, as stated: when the primary strategy has emitted a cue, the spans of
\* the cues do not overlap and every event lies within the span of exactly
\* one cue.
C37_EveryEventCaptioned ==
    PrimaryWritten =>
        /\ NoOverlap
        /\ \A e \in DOMAIN sub_maker : Cardinality(CuesOver(sub_maker[e])) = 1

\* C37, amended: when the primary strategy has emitted a cue, the spans of
\* the cues do not overlap, every event up to the one that completed the
\* last cue lies within the span of exactly one cue, and the events after it
\* lie within none.
C37_EventsUpToLastMatchCaptioned ==
    PrimaryWritten =>
        /\ NoOverlap
        /\ \A e \in DOMAIN sub_maker :
             Cardinality(CuesOver(sub_maker[e]))
                 = IF AfterLastCue(sub_maker[e]) THEN 0 ELSE 1

\* the primary strategy wrote two cues or more, of several events each, and
\* events follow the last of them
C37_Witness ==
    /\ PrimaryWritten
    /\ Len(subtitle_file) >= 2
    /\ \E e \in DOMAIN sub_maker : AfterLastCue(sub_maker[e])
    /\ \E e \in 1..(Len(sub_maker) - 1) :
         /\ Within(sub_maker[e], subtitle_file[2])
         /\ Within(sub_maker[e + 1], subtitle_file[2])

(***************************************************************************)
(* The fallback subject of a job.                                          *)
(***************************************************************************)
\* the call is the orchestrator's, for a job that has a topic
OrchestratedJob ==
    /\ "caller" \in DOMAIN params
    /\ params.caller = "generate_video_from_params"
    /\ params.topic # ""

\* C38: in a run of download_videos that generate_video_from_params started
\* for a job with a topic, the topic is the fallback subject, and the search
\* loops are left without a fallback search only with a raw found duration
\* of A x 3 or more.
C38_TopicIsFallbackSubject ==
    OrchestratedJob =>
        /\ params.video_subject
        /\ (pc # "search" /\ FallbackSearches = {}) =>
               found_duration >= params.audio_duration * 3

\* a job of the orchestrator with a topic has left the search loops with a
\* raw found duration below A x 3
C38_Witness ==
    /\ OrchestratedJob
    /\ pc \in {"download", "done"}
    /\ Len(searches) >= 1
    /\ found_duration > 0
    /\ found_duration < params.audio_duration * 3


(***************************************************************************)
(* C39                                                                     *)
(***************************************************************************)
\* the render steps of the job both wrote their file
OwnRender == {"combined", "final"} \subseteq task_files

\* C39: a job is reported complete only if its own render steps wrote the
\* combined and the final video: every video the job returns and every video
\* main copies to the output directory was written by this job, so a
\* combined.mp4 or final.mp4 that an earlier job left in a reused task
\* directory is never taken for the video of a job whose render failed.
C39_OnlyOwnRender ==
    /\ report = "complete" => OwnRender
    /\ \A i \in DOMAIN result.videos : result.videos[i] \in task_files
    /\ \A i \in DOMAIN published : published[i] \in task_files
    /\ Announced("final") => "combined" \in task_files

\* a job in a reused directory that held an earlier final.mp4, whose final
\* step ran and wrote nothing
C39_Witness ==
    /\ Exited
    /\ Announced("final")
    /\ "final" \notin task_files
    /\ "final" \in stale_files

====
